---- MODULE Spec2Model ----
(***************************************************************************)
(* Qingping / Tuya integration handlers (aws_webhook/*.py, src/*.py).      *)
(*                                                                         *)
(* Text is modelled as a sequence of one-character strings, so that        *)
(* concatenation, emptiness and case are what they are in Python.  A JSON  *)
(* value is a record [t, v]: t is its type ("absent" when the key is not   *)
(* in the mapping) and v the text Python's str() gives for it.             *)
(***************************************************************************)
EXTENDS Integers, Sequences, FiniteSets, TLC

VARIABLES
    \* ---- signature verification (lambda_function.py, webhook_server.py)
    vSecret,      \* APP_SECRET
    vBlock,       \* the "signature" value of the inbound payload
    vResult,      \* what _verify_signature returned: "pending", "true", "false"
    vServer,      \* status answered by receive_data: "pending", "200", "401", "500"
    \* ---- token cache, one handler process (get_tuya_token, get_qingping_access_token)
    tImpl,        \* which handler's implementation this process runs
    tCfg,         \* whether the client id and secret are configured (non-empty)
    clock,        \* time.time(), in seconds
    cache,        \* the module-level token cache: [token, expires_at]
    grant,        \* the vendor's latest grant: [token, t0, ttl], t0 the request's time
    tLast,        \* the last get_token call: what it saw, did and returned
    \* ---- concurrent get_token callers on the one cache of a process
    rPc,          \* rPc[i]: where caller i stands in get_tuya_token
    rNow,         \* rNow[i]: the now caller i sampled on entry
    rGot,         \* rGot[i]: the [token, ttl] caller i received from the vendor
    rServed,      \* the last return of a caller: [token, at, how]
    issued,       \* the vendor's grants: issued[id] = [t0, ttl] of token id
    \* ---- the webhook entry point (lambda_function.py lambda_handler)
    wSecret,      \* APP_SECRET of the webhook handler
    readings,     \* the readings table of the sensor: readings[ts] = [present, pm25, received_at]
    mapping,      \* the mapping table's record of the sensor: [present, enabled, plug]
    wEvent,       \* the event of the last invocation
    wResp,        \* its response: [status, tag]; status 0 when an exception escaped
    wEffects,     \* the store and vendor calls it made, in order: [op, arg]
    wCount,       \* invocations so far
    wInputs,      \* what the store and the vendor did in the last invocation
    \* ---- tuya_request's path and query (download_sensor_and_plug_csv.py, fetch_tuya_plugs_list.py)
    qQuery,       \* the query argument: [none, items], items the dict's (key, value) pairs in order
    qOut,         \* what tuya_request signed and requested: [done, signed, url]
    \* ---- paginated vendor listings (fetch_tuya_plugs_list.py, download_sensor_and_plug_csv.py)
    pMode,    \* which fetcher runs: "list" (plug list) or "logs" (CSV export)
    pPlan,    \* how the vendor will answer
    pItems,    \* all_devices / logs: what the fetcher has accumulated
    pCursor,    \* last_id / last_row_key
    pSent,    \* the cursor each request carried, in order
    pGot,    \* the pages received, in order: [items, has_more, key]
    pPc,    \* "start", "loop", "returned", "raised", "answered"
    pResp,   \* the handler's response: [status, has, ids, count]
    \* ---- store queries and the device registry (qingping_list_devices.py, qingping_bind_device.py)
    sRegistry,    \* the device registry table: sRegistry[key] = [present, user_id, bound_at]
    sRemote,    \* the devices the vendor holds for the account
    sOut,    \* the last sync: [status, puts, deletes]
    sQuery,    \* the last store query: [who, matching, got]
    sSyncs,   \* syncs so far
    \* ---- the sensor-plug mapping (qingpingSensor_plug_bind.py)
    mStore,    \* the mapping table's record of the sensor
    mClock,    \* int(time.time())
    mFirst,    \* created_at written by the first upsert since the record was absent
    mLast,    \* the last handler call: [op, at, seen, fresh]
    uPc,    \* uPc[i]: where instance i stands in upsert_mapping
    uNow,    \* uNow[i]: the now instance i sampled
    uSeen,   \* uSeen[i]: the existing record instance i read
    \* ---- Tuya request signing (lambda_function.py, download_sensor_and_plug_csv.py)
    hReq,   \* the last vendor request a signing site built: what it signed and what it sent
    \* ---- the sensor id as partition key (lambda_function.py, qingpingSensor_plug_bind.py, download_sensor_and_plug_csv.py)
    kWebhook,    \* the MAC of the last webhook payload and the partition key the handler used: [given, key]
    kBind,    \* the sensor_mac of the last bind request and the key written
    kCsv,   \* the sensor_mac of the last CSV export request and the key queried
    \* ---- the pagination loops against an arbitrary vendor (fetch_tuya_plugs_list.py, download_sensor_and_plug_csv.py)
    lMode,    \* which loop runs: "list" (list_all_devices_in_space) or "logs" (tuya_fetch_switch_logs)
    lPc,    \* "idle", "loop", "returned" or "raised"
    lCursor,    \* last_id / last_row_key; 0 for None and ""
    lSent,    \* the cursors the requests of this run carried
    lRepeated    \* a request of this run carried a cursor an earlier one carried

verifyVars == <<vSecret, vBlock, vResult, vServer>>

tokenVars == <<tImpl, tCfg, clock, cache, grant, tLast>>

raceVars == <<rPc, rNow, rGot, rServed, issued>>

webVars == <<wSecret, readings, mapping, wEvent, wResp, wEffects, wCount, wInputs>>

queryVars == <<qQuery, qOut>>

pageVars == <<pMode, pPlan, pItems, pCursor, pSent, pGot, pPc, pResp>>

registryVars == <<sRegistry, sRemote, sOut, sQuery, sSyncs>>

mapVars == <<mStore, mClock, mFirst, mLast, uPc, uNow, uSeen>>

signVars == <<hReq>>

keyVars == <<kWebhook, kBind, kCsv>>

loopVars == <<lMode, lPc, lCursor, lSent, lRepeated>>

vars == <<verifyVars, tokenVars, raceVars, webVars, queryVars, pageVars, registryVars, mapVars, signVars, keyVars, loopVars>>

otherThanVerify == <<tokenVars, raceVars, webVars, queryVars, pageVars, registryVars, mapVars, signVars, keyVars, loopVars>>

otherThanToken == <<verifyVars, raceVars, webVars, queryVars, pageVars, registryVars, mapVars, signVars, keyVars, loopVars>>

otherThanRace == <<verifyVars, tImpl, tCfg, grant, tLast, webVars, queryVars, pageVars, registryVars, mapVars, signVars, keyVars, loopVars>>

otherThanWeb == <<verifyVars, raceVars, tImpl, tCfg, tLast, queryVars, pageVars, registryVars, mapVars, signVars, keyVars, loopVars>>

otherThanQuery == <<verifyVars, tokenVars, raceVars, webVars, pageVars, registryVars, mapVars, signVars, keyVars, loopVars>>

otherThanPage == <<verifyVars, tokenVars, raceVars, webVars, queryVars, registryVars, mapVars, signVars, keyVars, loopVars>>

otherThanRegistry == <<verifyVars, tokenVars, raceVars, webVars, queryVars, pageVars, mapVars, signVars, keyVars, loopVars>>

otherThanMap == <<verifyVars, tokenVars, raceVars, webVars, queryVars, pageVars, registryVars, signVars, keyVars, loopVars>>

otherThanSign == <<verifyVars, tokenVars, raceVars, webVars, queryVars, pageVars, registryVars, mapVars, keyVars, loopVars>>

otherThanKey == <<verifyVars, tokenVars, raceVars, webVars, queryVars, pageVars, registryVars, mapVars, signVars, loopVars>>

otherThanLoop == <<verifyVars, tokenVars, raceVars, webVars, queryVars, pageVars, registryVars, mapVars, signVars, keyVars>>

-----------------------------------------------------------------------------
(* Text helpers *)

HexDigits == <<"0","1","2","3","4","5","6","7","8","9","a","b","c","d","e","f">>

Alphabet == HexDigits \o <<"k","t","N","o","n","[","]","A","B","C","D","E","F">>
            \o <<"GET", "POST", "get", "\n", "/v1.0/token?grant_type=1", "/v1.0/devices/",
                 "/commands", "/status", "{\"commands\":[{\"code\":\"switch_1\",\"value\":",
                 "true", "false", "}]}">>

CharCode(c) == CHOOSE i \in 1..Len(Alphabet) : Alphabet[i] = c

\* str.upper() on the characters of a hex digest
UpperChar(c) ==
    CASE c = "a" -> "A" [] c = "b" -> "B" [] c = "c" -> "C"
      [] c = "d" -> "D" [] c = "e" -> "E" [] c = "f" -> "F"
      [] c = "get" -> "GET"
      [] OTHER -> c

Upper(s) == [i \in 1..Len(s) |-> UpperChar(s[i])]

\* JSON values
Absent    == [t |-> "absent", v |-> <<>>]
JNull     == [t |-> "null",   v |-> <<"N","o","n","e">>]
JStr(s)   == [t |-> "str",    v |-> s]
JInt(s)   == [t |-> "int",    v |-> s]
JList     == [t |-> "list",   v |-> <<"[","1","]">>]

\* Python truthiness of a JSON value (bool(x))
Truthy(x) ==
    CASE x.t = "str"  -> x.v # <<>>
      [] x.t = "int"  -> x.v # <<"0">>
      [] x.t = "list" -> TRUE
      [] OTHER        -> FALSE

\* dict.get(key, "") : the default replaces an absent key only
GetOrEmpty(x) == IF x.t = "absent" THEN JStr(<<>>) ELSE x

\* str(x)
PyStr(x) == x.v

-----------------------------------------------------------------------------
(* HMAC-SHA256(key, msg).hexdigest(): a keyed digest of the key and the    *)
(* message, rendered in lowercase hex.  The digest is two hex digits wide  *)
(* here (DigestMod = 16^2).                                                *)

DigestMod == 256

RECURSIVE Absorb(_, _)
Absorb(h, s) ==
    IF s = <<>> THEN h
    ELSE Absorb((h * 31 + CharCode(Head(s))) % DigestMod, Tail(s))

HmacSha256Hex(key, msg) ==
    LET h == Absorb(Absorb(7, key) * 17 % DigestMod, msg)
    IN  <<HexDigits[(h \div 16) + 1], HexDigits[(h % 16) + 1]>>

-----------------------------------------------------------------------------
(* _verify_signature, lambda_function.py:28-41 *)

\* the body of the try block: "raise", "true" or "false"
VerifyMsgSwapped(ts, token) == token \o ts

VerifyMsg(ts, token) == ts \o token

VerifyTry(secret, block) ==
    IF block.kind # "dict" THEN "raise"                 \* no .get on a non-mapping
    ELSE
      LET ts    == PyStr(GetOrEmpty(block.timestamp))
          token == GetOrEmpty(block.token)
          sig   == GetOrEmpty(block.signature)
      IN  IF ~(secret # <<>> /\ ts # <<>> /\ Truthy(token) /\ Truthy(sig))
          THEN "false"
          ELSE IF token.t # "str" THEN "raise"          \* str + non-str
          ELSE IF sig.t # "str" THEN "raise"            \* compare_digest(str, non-str)
          ELSE IF HmacSha256Hex(secret, VerifyMsg(ts, token.v)) = sig.v
               THEN "true" ELSE "false"

\* except Exception: return False
VerifySignature(secret, block) ==
    LET r == VerifyTry(secret, block)
    IN  IF r = "raise" THEN "false" ELSE r

(* receive_data, webhook_server.py:15-51: the status it answers *)
ReceiveDataStatus(secret, block) ==
    IF block.kind # "dict" THEN "500"
    ELSE
      LET token == GetOrEmpty(block.token)
          ts    == PyStr(GetOrEmpty(block.timestamp))
          sig   == GetOrEmpty(block.signature)
      IN  IF token.t # "str" THEN "500"
          ELSE IF sig.t = "str" /\ sig.v = HmacSha256Hex(secret, ts \o token.v)
               THEN "200" ELSE "401"

-----------------------------------------------------------------------------
(* Inputs of the verification specification *)

Secrets == {<<>>, <<"k">>, <<"k","t">>}

TimestampValues == {Absent, JNull, JStr(<<>>), JStr(<<"1">>), JInt(<<"1">>),
                    JInt(<<"1","0">>), JList}

TokenValues == {Absent, JNull, JStr(<<>>), JStr(<<"t">>), JStr(<<"0">>), JInt(<<"5">>), JInt(<<"0">>)}

\* the text a well-behaved sender would sign for these fields
SenderDigest(secret, ts, token) ==
    HmacSha256Hex(secret, PyStr(GetOrEmpty(ts)) \o PyStr(GetOrEmpty(token)))

SignatureValues(secret, ts, token) ==
    LET d == SenderDigest(secret, ts, token)
    IN  {Absent, JNull, JStr(<<>>), JInt(<<"7">>), JList,
         JStr(d), JStr(Upper(d)), JStr(<<d[1]>>), JStr(d \o <<"0">>),
         JStr(<<d[2], d[1]>>), JStr(HmacSha256Hex(secret, PyStr(GetOrEmpty(token)) \o PyStr(GetOrEmpty(ts))))}

VerifySignatureCall ==
    /\ vResult = "pending"
    /\ vResult' = VerifySignature(vSecret, vBlock)
    /\ UNCHANGED <<vSecret, vBlock, vServer>>
    /\ UNCHANGED otherThanVerify

ReceiveData ==
    /\ vServer = "pending"
    /\ vServer' = ReceiveDataStatus(vSecret, vBlock)
    /\ UNCHANGED <<vSecret, vBlock, vResult>>
    /\ UNCHANGED otherThanVerify

IdleBlock == [kind |-> "notdict", timestamp |-> Absent, token |-> Absent,
              signature |-> Absent]

-----------------------------------------------------------------------------
(* Token caches.  Five implementations share one shape:                    *)
(*   "webhook"  lambda_function.py:155-204            get_tuya_token       *)
(*   "csv"      download_sensor_and_plug_csv.py:186-201  get_tuya_token    *)
(*   "plugs"    fetch_tuya_plugs_list.py:104-120      get_tuya_token       *)
(*   "bind"     qingping_bind_device.py:53-91   get_qingping_access_token  *)
(*   "list"     qingping_list_devices.py:52-92  get_qingping_access_token  *)
(* A token is a positive number; NoToken is Python's None and EmptyToken   *)
(* a null or "" access_token; FieldAbsent is a key the response lacks.     *)

Impls == {"webhook", "csv", "plugs", "bind", "list"}

NoToken == 0

EmptyToken == -1

FieldAbsent == -2

Margin == 60

DefaultTtl == 7200

EmptyCache == [token |-> NoToken, expires_at |-> 0]

\* a token exchange's response: net is "ok", "transport" or "http_error";
\* success is the Tuya envelope's flag: "true", "false" or "absent";
\* ttl is [has, v]: the lifetime field and whether the response has it
NoResponse == [net |-> "none", success |-> "absent", token |-> FieldAbsent,
               ttl |-> [has |-> FALSE, v |-> 0]]

\* int(result.get("expire_time", 7200)) / int(resp.get("expires_in", 0))
EffectiveTtl(impl, ttl) ==
    IF ttl.has THEN ttl.v
    ELSE IF impl = "bind" THEN 0 ELSE DefaultTtl

NewExpiresAtLate(now, expire) == now + expire + Margin

NewExpiresAt(now, expire) == now + expire - Margin

CacheValidInclusive(c, now) == c.token >= 1 /\ now <= c.expires_at

\* _TUYA_TOKEN_CACHE["token"] and now < _TUYA_TOKEN_CACHE["expires_at"]
CacheValid(c, now) == c.token >= 1 /\ now < c.expires_at

\* whether the implementation raises on this response before it caches
Rejects(impl, resp) ==
    \/ resp.net # "ok"                                  \* raise_for_status, HTTPError, URLError
    \/ impl = "webhook" /\ resp.success # "true"        \* not resp.get("success")
    \/ impl \in {"csv", "plugs"} /\ resp.success = "false"   \* data.get("success") is False
    \/ resp.token = FieldAbsent                         \* KeyError / not token
    \/ impl # "webhook" /\ resp.token = EmptyToken      \* if not token: raise
    \/ impl = "bind" /\ EffectiveTtl(impl, resp.ttl) <= 0   \* expires_in <= 0

\* the configuration check that precedes the request, where there is one
ConfigChecked(impl) == impl \in {"csv", "plugs", "bind"}

\* One get_token call at time now: what it returns (kind: "cached", "fresh",
\* "config_error", "error"), how many requests it sent, and the cache after.
GetToken(impl, c, now, cfg, resp) ==
    IF CacheValid(c, now)
    THEN [kind |-> "cached", token |-> c.token, requests |-> 0, cache |-> c]
    ELSE IF ConfigChecked(impl) /\ ~cfg
    THEN [kind |-> "config_error", token |-> NoToken, requests |-> 0, cache |-> c]
    ELSE IF Rejects(impl, resp)
    THEN [kind |-> "error", token |-> NoToken, requests |-> 1, cache |-> c]
    ELSE [kind |-> "fresh", token |-> resp.token, requests |-> 1,
          cache |-> [token |-> resp.token,
                     expires_at |-> NewExpiresAt(now, EffectiveTtl(impl, resp.ttl))]]

-----------------------------------------------------------------------------
(* One process calling get_token again and again, the clock advancing *)

MaxClock == 40

MaxTokens == 2

ClockSteps == {10}

Latencies == {0, 10}

DeclaredTtls == {[has |-> FALSE, v |-> 0], [has |-> TRUE, v |-> 0],
                 [has |-> TRUE, v |-> -10], [has |-> TRUE, v |-> 70],
                 [has |-> TRUE, v |-> 90]}

\* what the vendor may answer to an exchange when it has issued n tokens
Responses(n) ==
    {[net |-> "transport", success |-> "absent", token |-> FieldAbsent,
      ttl |-> [has |-> FALSE, v |-> 0]],
     [net |-> "http_error", success |-> "false", token |-> FieldAbsent,
      ttl |-> [has |-> FALSE, v |-> 0]],
     [net |-> "ok", success |-> "false", token |-> FieldAbsent,
      ttl |-> [has |-> FALSE, v |-> 0]],
     [net |-> "ok", success |-> "true", token |-> FieldAbsent,
      ttl |-> [has |-> TRUE, v |-> 90]],
     [net |-> "ok", success |-> "true", token |-> EmptyToken,
      ttl |-> [has |-> TRUE, v |-> 90]]}
    \cup (IF n < MaxTokens
          THEN {[net |-> "ok", success |-> "true", token |-> n + 1, ttl |-> ttl] :
                  ttl \in DeclaredTtls}
               \cup {[net |-> "ok", success |-> "absent", token |-> n + 1,
                      ttl |-> [has |-> TRUE, v |-> 70]]}
          ELSE {})

NoGrant == [token |-> NoToken, t0 |-> 0, ttl |-> [has |-> FALSE, v |-> 0]]

\* tLast: the call's outcome (kind, token, requests), the time it sampled
\* (at), the cache and the vendor's latest grant as they were when it began
\* (before, held) and the response it got (resp)
NoCall == [kind |-> "none", token |-> NoToken, requests |-> 0, at |-> 0,
           before |-> EmptyCache, held |-> NoGrant, resp |-> NoResponse]

Tick ==
    /\ \E d \in ClockSteps : clock + d <= MaxClock /\ clock' = clock + d
    /\ UNCHANGED <<tImpl, tCfg, cache, grant, tLast>>
    /\ UNCHANGED otherThanToken

\* get_token, whole: the cache check, the exchange (which takes time and in
\* which the vendor may issue a token) and the two cache writes
GetTokenCall ==
    \E resp \in Responses(grant.token), d \in Latencies :
      LET r    == GetToken(tImpl, cache, clock, tCfg, resp)
          sent == r.requests > 0
      IN  /\ clock + d <= MaxClock
          /\ cache' = r.cache
          /\ clock' = IF sent THEN clock + d ELSE clock
          /\ grant' = IF sent /\ resp.token >= 1
                      THEN [token |-> resp.token, t0 |-> clock, ttl |-> resp.ttl]
                      ELSE grant
          /\ tLast' = [kind |-> r.kind, token |-> r.token, requests |-> r.requests,
                       at |-> clock, before |-> cache, held |-> grant,
                       resp |-> IF sent THEN resp ELSE NoResponse]
          /\ UNCHANGED <<tImpl, tCfg>>
          /\ UNCHANGED otherThanToken

-----------------------------------------------------------------------------
(* Concurrent callers of get_tuya_token on one module-level cache, with no *)
(* lock: each read and each write of the cache dictionary is a step of its *)
(* own (fetch_tuya_plugs_list.py:104-120, lambda_function.py:155-204).     *)

NThreads == 2

Threads == 1..NThreads

RaceTtls == {[has |-> TRUE, v |-> 70], [has |-> TRUE, v |-> 90]}

NothingServed == [token |-> NoToken, at |-> 0, how |-> "none"]

\* now = time.time()
RStart(i) ==
    /\ rPc[i] = "idle"
    /\ rPc' = [rPc EXCEPT ![i] = "check_token"]
    /\ rNow' = [rNow EXCEPT ![i] = clock]
    /\ UNCHANGED <<rGot, rServed, issued, cache, clock>>
    /\ UNCHANGED otherThanRace

\* if _TUYA_TOKEN_CACHE["token"] and ...
RCheckToken(i) ==
    /\ rPc[i] = "check_token"
    /\ rPc' = [rPc EXCEPT ![i] = IF cache.token >= 1 THEN "check_expiry" ELSE "exchange"]
    /\ UNCHANGED <<rNow, rGot, rServed, issued, cache, clock>>
    /\ UNCHANGED otherThanRace

\* ... and now < _TUYA_TOKEN_CACHE["expires_at"]
RCheckExpiry(i) ==
    /\ rPc[i] = "check_expiry"
    /\ rPc' = [rPc EXCEPT ![i] = IF rNow[i] < cache.expires_at
                                 THEN "return_cached" ELSE "exchange"]
    /\ UNCHANGED <<rNow, rGot, rServed, issued, cache, clock>>
    /\ UNCHANGED otherThanRace

\* return _TUYA_TOKEN_CACHE["token"]
RReturnCached(i) ==
    /\ rPc[i] = "return_cached"
    /\ rServed' = [token |-> cache.token, at |-> rNow[i], how |-> "cache"]
    /\ rPc' = [rPc EXCEPT ![i] = "idle"]
    /\ UNCHANGED <<rNow, rGot, issued, cache, clock>>
    /\ UNCHANGED otherThanRace

\* data = tuya_request("GET", "/v1.0/token", ...): the vendor issues a token
RExchange(i) ==
    /\ rPc[i] = "exchange"
    /\ Len(issued) < MaxTokens
    /\ \E ttl \in RaceTtls :
         /\ issued' = Append(issued, [t0 |-> rNow[i], ttl |-> ttl])
         /\ rGot' = [rGot EXCEPT ![i] = [token |-> Len(issued) + 1, ttl |-> ttl]]
    /\ rPc' = [rPc EXCEPT ![i] = "write_token"]
    /\ UNCHANGED <<rNow, rServed, cache, clock>>
    /\ UNCHANGED otherThanRace

\* the exchange raises: get_tuya_token is left with the cache untouched
RExchangeFails(i) ==
    /\ rPc[i] = "exchange"
    /\ rPc' = [rPc EXCEPT ![i] = "idle"]
    /\ UNCHANGED <<rNow, rGot, rServed, issued, cache, clock>>
    /\ UNCHANGED otherThanRace

\* _TUYA_TOKEN_CACHE["token"] = token
RWriteToken(i) ==
    /\ rPc[i] = "write_token"
    /\ cache' = [cache EXCEPT !.token = rGot[i].token]
    /\ rPc' = [rPc EXCEPT ![i] = "write_expiry"]
    /\ UNCHANGED <<rNow, rGot, rServed, issued, clock>>
    /\ UNCHANGED otherThanRace

\* _TUYA_TOKEN_CACHE["expires_at"] = now + expire_seconds - 60; return token
RWriteExpiry(i) ==
    /\ rPc[i] = "write_expiry"
    /\ cache' = [cache EXCEPT !.expires_at =
                    NewExpiresAt(rNow[i], EffectiveTtl(tImpl, rGot[i].ttl))]
    /\ rServed' = [token |-> rGot[i].token, at |-> rNow[i], how |-> "fresh"]
    /\ rPc' = [rPc EXCEPT ![i] = "idle"]
    /\ UNCHANGED <<rNow, rGot, issued, clock>>
    /\ UNCHANGED otherThanRace

RTick ==
    /\ \E d \in ClockSteps : clock + d <= MaxClock /\ clock' = clock + d
    /\ UNCHANGED <<rPc, rNow, rGot, rServed, issued, cache>>
    /\ UNCHANGED otherThanRace

RaceNext ==
    \/ RTick
    \/ \E i \in Threads :
         \/ RStart(i) \/ RCheckToken(i) \/ RCheckExpiry(i) \/ RReturnCached(i)
         \/ RExchange(i) \/ RExchangeFails(i) \/ RWriteToken(i) \/ RWriteExpiry(i)

-----------------------------------------------------------------------------
(* The webhook entry point, lambda_function.py:237-248, and what it calls. *)
(* An event is [body, manual, device, block, payload, mac, data]:          *)
(*   body     "empty" (none, or base64 that does not decode), "notjson",   *)
(*            "nondict" (JSON, not an object), "nokeys" (an object without *)
(*            "signature" or "payload") or "webhook"                       *)
(*   manual   "none", "on", "off", "status"; device: a device id is given  *)
(*   block    the "signature" value; payload: "dict" or "notdict"          *)
(*   mac      the sensor's mac is given; data: the batch of readings       *)
(* A reading is [kind, ts, pm25]; kind "bad" is one whose timestamp or     *)
(* values do not convert (int(), Decimal(str()) raise).                    *)

ReadingKeys == {1, 2}

NoReading == [present |-> FALSE, pm25 |-> 0, received_at |-> 0]

EmptyReadings == [k \in ReadingKeys |-> NoReading]

PmThreshold == 9

\* a call on the store or the vendor; dev is the plug a vendor call addresses
Effect(op, arg) == [op |-> op, arg |-> arg, dev |-> 0]

PlugEffect(op, arg, dev) == [op |-> op, arg |-> arg, dev |-> dev]

Response(status, tag) == [status |-> status, tag |-> tag]

\* _is_qingping_webhook
IsQingpingWebhook(ev) == ev.body = "webhook"

\* the for loop over data_list calling save_sensor_reading: the store after,
\* the put_item calls made, and whether a reading raised outside the try
RECURSIVE SaveReadings(_, _, _, _)
SaveReadings(data, oks, store, now) ==
    IF data = <<>> THEN [store |-> store, effects |-> <<>>, raised |-> FALSE]
    ELSE LET r == Head(data)
         IN  IF r.kind = "bad"
             THEN [store |-> store, effects |-> <<>>, raised |-> TRUE]
             ELSE LET put  == [present |-> TRUE, pm25 |-> r.pm25, received_at |-> now]
                      next == IF Head(oks) THEN [store EXCEPT ![r.ts] = put] ELSE store
                      rest == SaveReadings(Tail(data), Tail(oks), next, now)
                  IN  [store |-> rest.store,
                       effects |-> <<Effect("put", r.ts)>> \o rest.effects,
                       raised |-> rest.raised]

PlugForAny(m, lookupOk) == IF m.present THEN m.plug ELSE 0

\* get_plug_device_id_for_sensor: the plug, or 0 for None
PlugFor(m, lookupOk) ==
    IF lookupOk /\ m.present /\ m.enabled THEN m.plug ELSE 0

\* control_plug / read_plug_status: get_tuya_token, then the signed request.
\* op is "control" or "status"; ctlOk is whether the vendor call succeeds.
PlugCall(op, dev, arg, c, now, cfg, tokResp, ctlOk) ==
    LET t == GetToken("webhook", c, now, cfg, tokResp)
        exchange == IF t.requests > 0 THEN <<Effect("token_exchange", 0)>> ELSE <<>>
    IN  IF t.kind \in {"error", "config_error"}
        THEN [effects |-> exchange, cache |-> t.cache, raised |-> TRUE,
              granted |-> tokResp.token >= 1 /\ t.requests > 0]
        ELSE [effects |-> exchange \o <<PlugEffect(op, arg, dev)>>, cache |-> t.cache,
              raised |-> ~ctlOk,
              granted |-> tokResp.token >= 1 /\ t.requests > 0]

ControlSurfaced(call) ==
    IF call.raised THEN Response(0, "raised") ELSE Response(200, "ok")

\* try: control_plug(...) except Exception: logger.error(...), then the
\* final return
ControlSwallowed(call) == Response(200, "ok")

\* handle_qingping_webhook after its json.loads, which cannot fail for a body
\* that _is_qingping_webhook accepted
HandleVerified(ev, store, m, c, now, cfg, oks, lookupOk, tokResp, ctlOk) ==
    IF ev.payload # "dict"
    THEN [resp |-> Response(0, "raised"), effects |-> <<>>, store |-> store,
          cache |-> c, granted |-> FALSE]
    ELSE IF ~ev.mac \/ ev.data = <<>>
    THEN [resp |-> Response(200, "no data"), effects |-> <<>>, store |-> store,
          cache |-> c, granted |-> FALSE]
    ELSE
      LET saved == SaveReadings(ev.data, oks, store, now)
          latest == ev.data[Len(ev.data)]
          plug == PlugFor(m, lookupOk)
          call == PlugCall("control", plug, IF latest.pm25 >= PmThreshold THEN 1 ELSE 0,
                           c, now, cfg, tokResp, ctlOk)
      IN  IF saved.raised
          THEN [resp |-> Response(0, "raised"), effects |-> saved.effects,
                store |-> saved.store, cache |-> c, granted |-> FALSE]
          ELSE IF plug = 0
          THEN [resp |-> Response(200, "ok"),
                effects |-> saved.effects \o <<Effect("get_mapping", 0)>>,
                store |-> saved.store, cache |-> c, granted |-> FALSE]
          ELSE [resp |-> ControlSwallowed(call),
                effects |-> saved.effects \o <<Effect("get_mapping", 0)>> \o call.effects,
                store |-> saved.store, cache |-> call.cache, granted |-> call.granted]

HandleQingpingWebhookEarly(secret, ev, store, m, c, now, cfg, oks, lookupOk, tokResp, ctlOk) ==
    LET h == HandleVerified(ev, store, m, c, now, cfg, oks, lookupOk, tokResp, ctlOk)
    IN  IF VerifySignature(secret, ev.block) = "true" THEN h
        ELSE [h EXCEPT !.resp = Response(401, "unauthorized")]

\* handle_qingping_webhook
HandleQingpingWebhook(secret, ev, store, m, c, now, cfg, oks, lookupOk, tokResp, ctlOk) ==
    IF VerifySignature(secret, ev.block) # "true"
    THEN [resp |-> Response(401, "unauthorized"), effects |-> <<>>, store |-> store,
          cache |-> c, granted |-> FALSE]
    ELSE HandleVerified(ev, store, m, c, now, cfg, oks, lookupOk, tokResp, ctlOk)

\* event.get("device_id") of a manual event that carries one
ManualDevice == 9

\* handle_manual
HandleManual(ev, store, c, now, cfg, tokResp, ctlOk) ==
    IF ~ev.device
    THEN [resp |-> Response(400, "error"), effects |-> <<>>, store |-> store,
          cache |-> c, granted |-> FALSE]
    ELSE
      LET call == PlugCall(IF ev.manual = "status" THEN "status" ELSE "control",
                           ManualDevice,
                           IF ev.manual = "on" THEN 1 ELSE 0,
                           c, now, cfg, tokResp, ctlOk)
      IN  [resp |-> IF call.raised THEN Response(0, "raised") ELSE Response(200, "vendor"),
           effects |-> call.effects, store |-> store, cache |-> call.cache,
           granted |-> call.granted]

\* lambda_handler
LambdaHandler(secret, ev, store, m, c, now, cfg, oks, lookupOk, tokResp, ctlOk) ==
    IF IsQingpingWebhook(ev)
    THEN HandleQingpingWebhook(secret, ev, store, m, c, now, cfg, oks, lookupOk, tokResp, ctlOk)
    ELSE IF ev.manual # "none"
    THEN HandleManual(ev, store, c, now, cfg, tokResp, ctlOk)
    ELSE [resp |-> Response(200, "alive"), effects |-> <<>>, store |-> store,
          cache |-> c, granted |-> FALSE]

-----------------------------------------------------------------------------
(* Inputs of the webhook specification *)

WebSecret == <<"k">>

GoodBlock ==
    [kind |-> "dict", timestamp |-> JInt(<<"1">>), token |-> JStr(<<"t">>),
     signature |-> JStr(HmacSha256Hex(WebSecret, <<"1", "t">>))]

BadBlocks ==
    {[GoodBlock EXCEPT !.signature = JStr(Upper(HmacSha256Hex(WebSecret, <<"t", "1">>)))],
     [GoodBlock EXCEPT !.signature = Absent],
     [GoodBlock EXCEPT !.kind = "notdict"]}

R(ts, pm) == [kind |-> "ok", ts |-> ts, pm25 |-> pm]

BadReading == [kind |-> "bad", ts |-> 0, pm25 |-> 0]

Batches == {<<>>, <<R(1, 5)>>, <<R(1, 12)>>, <<R(1, 5), R(2, 9)>>,
            <<R(2, 12), R(1, 5)>>, <<R(2, 5), BadReading>>}

NoEvent == [body |-> "none", manual |-> "none", device |-> FALSE, block |-> IdleBlock,
            payload |-> "dict", mac |-> FALSE, data |-> <<>>]

PlainEvents ==
    {[NoEvent EXCEPT !.body = b] : b \in {"empty", "notjson", "nondict", "nokeys"}}
    \cup {[NoEvent EXCEPT !.body = "empty", !.manual = m, !.device = d] :
            m \in {"on", "off", "status"}, d \in BOOLEAN}
    \cup {[NoEvent EXCEPT !.body = "notjson", !.manual = "on", !.device = TRUE]}

WebhookEvents ==
    {[NoEvent EXCEPT !.body = "webhook", !.block = GoodBlock, !.mac = TRUE, !.data = d] :
        d \in Batches}
    \cup {[NoEvent EXCEPT !.body = "webhook", !.block = GoodBlock, !.data = <<R(1, 5)>>],
          [NoEvent EXCEPT !.body = "webhook", !.block = GoodBlock, !.payload = "notdict"]}
    \cup {[NoEvent EXCEPT !.body = "webhook", !.block = b, !.mac = TRUE, !.data = d] :
            b \in BadBlocks, d \in {<<R(1, 12)>>, <<R(1, 5), R(2, 9)>>}}
    \cup {[NoEvent EXCEPT !.body = "webhook", !.block = b, !.payload = "notdict"] :
            b \in BadBlocks}

Mappings == {[present |-> FALSE, enabled |-> FALSE, plug |-> 0],
             [present |-> TRUE, enabled |-> TRUE, plug |-> 7],
             [present |-> TRUE, enabled |-> FALSE, plug |-> 8],
             [present |-> TRUE, enabled |-> TRUE, plug |-> 0]}

\* what the token endpoint may answer the webhook handler
WebResponses(n) ==
    {[net |-> "http_error", success |-> "false", token |-> FieldAbsent,
      ttl |-> [has |-> FALSE, v |-> 0]]}
    \cup (IF n < MaxTokens
          THEN {[net |-> "ok", success |-> "true", token |-> n + 1,
                 ttl |-> [has |-> TRUE, v |-> 70]]}
          ELSE {})

\* whether the invocation reaches the store and the vendor at all
ReachesStore(ev) ==
    /\ ev.body = "webhook" /\ ev.payload = "dict" /\ ev.mac /\ ev.data # <<>>

PutOutcomes(ev) ==
    IF ReachesStore(ev)
    THEN {[i \in 1..Len(ev.data) |-> TRUE], [i \in 1..Len(ev.data) |-> i # 1]}
    ELSE {<<>>}

ReachesVendor(ev) ==
    \/ ReachesStore(ev)
    \/ ev.body # "webhook" /\ ev.manual # "none" /\ ev.device

\* oks[i]: put_item of reading i succeeded; lookupOk: the mapping get_item
\* succeeded; tokResp: the token endpoint's answer; ctlOk: the plug request
\* succeeded
NoInputs == [oks |-> <<>>, lookupOk |-> TRUE, tokResp |-> NoResponse, ctlOk |-> TRUE]

Made(effects, ops) == \E i \in 1..Len(effects) : effects[i].op \in ops

\* the outcomes of the calls the invocation made; a call it did not make has
\* no outcome
Outcomes(effects, oks, lookupOk, tokResp, ctlOk) ==
    [oks |-> IF Made(effects, {"put"}) THEN oks ELSE <<>>,
     lookupOk |-> Made(effects, {"get_mapping"}) => lookupOk,
     tokResp |-> IF Made(effects, {"token_exchange"}) THEN tokResp ELSE NoResponse,
     ctlOk |-> Made(effects, {"control", "status"}) => ctlOk]

MaxInvocations == 2

MaxWebClock == 10

\* one invocation of lambda_handler, whole
Invoke ==
    /\ wCount < MaxInvocations
    /\ wCount' = wCount + 1
    /\ \E ev \in PlainEvents \cup WebhookEvents :
      \E oks \in PutOutcomes(ev),
         lookupOk \in (IF ReachesStore(ev) THEN BOOLEAN ELSE {TRUE}),
         tokResp \in (IF ReachesVendor(ev) THEN WebResponses(grant.token)
                      ELSE {NoResponse}),
         ctlOk \in (IF ReachesVendor(ev) THEN BOOLEAN ELSE {TRUE}) :
        \E r \in {LambdaHandler(wSecret, ev, readings, mapping, cache, clock, tCfg,
                                oks, lookupOk, tokResp, ctlOk)} :
            /\ wEvent' = ev
            /\ wInputs' = Outcomes(r.effects, oks, lookupOk, tokResp, ctlOk)
            /\ wResp' = r.resp
            /\ wEffects' = r.effects
            /\ readings' = r.store
            /\ cache' = r.cache
            /\ grant' = IF r.granted
                        THEN [token |-> tokResp.token, t0 |-> clock, ttl |-> tokResp.ttl]
                        ELSE grant
            /\ UNCHANGED <<wSecret, mapping, clock>>
            /\ UNCHANGED otherThanWeb

WebTick ==
    /\ \E d \in ClockSteps : clock + d <= MaxWebClock /\ clock' = clock + d
    /\ UNCHANGED <<wSecret, readings, mapping, wEvent, wResp, wEffects, wCount, wInputs,
                   cache, grant>>
    /\ UNCHANGED otherThanWeb

\* the bind handler between two invocations: it writes, disables or deletes
\* the mapping of the sensor
Rebind ==
    /\ 0 < wCount /\ wCount < MaxInvocations
    /\ mapping' \in Mappings \ {mapping}
    /\ UNCHANGED <<wSecret, readings, wEvent, wResp, wEffects, wCount, wInputs,
                   clock, cache, grant>>
    /\ UNCHANGED otherThanWeb

WebNext == Invoke \/ WebTick \/ Rebind

-----------------------------------------------------------------------------
(* _build_canonical_query and the path tuya_request signs and requests,    *)
(* download_sensor_and_plug_csv.py:123-127, 152-184 (and the same code in  *)
(* fetch_tuya_plugs_list.py:47-51, 65-101).                                *)

\* code points of the characters keys are made of
CodePoint(c) ==
    CASE c = "Z" -> 90 [] c = "_" -> 95 [] c = "a" -> 97 [] c = "b" -> 98

\* Python's < on str
RECURSIVE StrLess(_, _)
StrLess(s, t) ==
    IF t = <<>> THEN FALSE
    ELSE IF s = <<>> THEN TRUE
    ELSE IF Head(s) = Head(t) THEN StrLess(Tail(s), Tail(t))
    ELSE CodePoint(Head(s)) < CodePoint(Head(t))

\* quote_plus, one character
QuotePlusChar(c) ==
    CASE c = " " -> <<"+">>
      [] c = "," -> <<"%", "2", "C">>
      [] OTHER   -> <<c>>

RECURSIVE QuotePlus(_)
QuotePlus(s) ==
    IF s = <<>> THEN <<>> ELSE QuotePlusChar(Head(s)) \o QuotePlus(Tail(s))

KeepsTruthy(v) == Truthy(v)

\* v is not None and str(v) != ""
Keeps(v) == v.t # "null" /\ PyStr(v) # <<>>

\* the dict comprehension, in the dict's order
RECURSIVE Cleaned(_)
Cleaned(items) ==
    IF items = <<>> THEN <<>>
    ELSE IF Keeps(Head(items).v)
         THEN <<Head(items)>> \o Cleaned(Tail(items))
         ELSE Cleaned(Tail(items))

\* sorted(cleaned.items()): the keys of a dict are distinct, so the pairs
\* order by key
RECURSIVE InsertSorted(_, _)
InsertSorted(x, sorted) ==
    IF sorted = <<>> THEN <<x>>
    ELSE IF StrLess(x.k, Head(sorted).k) THEN <<x>> \o sorted
    ELSE <<Head(sorted)>> \o InsertSorted(x, Tail(sorted))

RECURSIVE Sorted(_)
Sorted(items) ==
    IF items = <<>> THEN <<>>
    ELSE InsertSorted(Head(items), Sorted(Tail(items)))

\* urlencode(pairs, doseq=True) for text and number values
RECURSIVE UrlEncode(_)
UrlEncode(pairs) ==
    IF pairs = <<>> THEN <<>>
    ELSE QuotePlus(Head(pairs).k) \o <<"=">> \o QuotePlus(PyStr(Head(pairs).v))
         \o (IF Len(pairs) > 1 THEN <<"&">> \o UrlEncode(Tail(pairs)) ELSE <<>>)

BuildCanonicalQuery(query) ==
    IF query.none \/ query.items = <<>> THEN <<>>        \* if not query: return ""
    ELSE UrlEncode(Sorted(Cleaned(query.items)))

BaseUrl == <<"h", ":">>

\* tuya_request up to the request: path_with_query as signed and the URL
TuyaRequestPath(path, query) ==
    LET qs == BuildCanonicalQuery(query)
        pathWithQuery == path \o (IF qs # <<>> THEN <<"?">> \o qs ELSE <<>>)
    IN  [done |-> TRUE, signed |-> pathWithQuery, url |-> BaseUrl \o pathWithQuery]

-----------------------------------------------------------------------------
(* Inputs of the query specification *)

MaxParams == 2

QueryKeys == {<<"a">>, <<"b">>, <<"a", "b">>, <<"Z">>, <<"_">>}

QueryValues == {JNull, JStr(<<>>), JStr(<<"x">>), JStr(<<"x", " ", ",">>),
                JInt(<<"0">>), JInt(<<"7">>)}

QueryPath == <<"/", "p">>

\* dicts of at most MaxParams entries, in every insertion order
RECURSIVE ItemSeqs(_)
ItemSeqs(n) ==
    IF n = 0 THEN {<<>>}
    ELSE LET shorter == ItemSeqs(n - 1)
         IN  shorter \cup
             {Append(q, [k |-> k, v |-> v]) :
                 q \in {x \in shorter : Len(x) = n - 1},
                 k \in QueryKeys, v \in QueryValues}

HasDistinctKeys(q) == \A i, j \in 1..Len(q) : i # j => q[i].k # q[j].k

Queries ==
    {[none |-> TRUE, items |-> <<>>]}
    \cup {[none |-> FALSE, items |-> q] : q \in {x \in ItemSeqs(MaxParams) : HasDistinctKeys(x)}}

NoOut == [done |-> FALSE, signed |-> <<>>, url |-> <<>>]

TuyaRequestCall ==
    /\ ~qOut.done
    /\ qOut' = TuyaRequestPath(QueryPath, qQuery)
    /\ UNCHANGED qQuery
    /\ UNCHANGED otherThanQuery

QueryNext == TuyaRequestCall

-----------------------------------------------------------------------------
(* Paginated vendor listings:                                              *)
(*   list_all_devices_in_space and lambda_handler of                       *)
(*   fetch_tuya_plugs_list.py:123-157, 161-199 (offset by last id), and    *)
(*   tuya_fetch_switch_logs and lambda_handler of                          *)
(*   download_sensor_and_plug_csv.py:225-251, 352-373 (opaque cursor).     *)
(* An id is a positive number and 0 stands for None or "".  Each loop      *)
(* iteration is a step; pSent holds the cursor of every request sent.      *)

PageSize == 20

\* the vendor's plan: the most it returns on its k-th answer (sizes), or the
\* pages of the switch log (pages), which request fails if any (failAt) and
\* whether get_tuya_token succeeds (tokenOk)
NoPlan == [sizes |-> <<>>, pages |-> <<>>, failAt |-> 0, tokenOk |-> TRUE]

NoListResp == [status |-> 0, has |-> FALSE, ids |-> {}, count |-> 0]

RECURSIVE SumSeq(_)
SumSeq(s) == IF s = <<>> THEN 0 ELSE Head(s) + SumSeq(Tail(s))

\* the devices of the space, in the vendor's order
SpaceDevices(plan) == [i \in 1..SumSeq(plan.sizes) |-> 100 + i]

\* the vendor's answer to GET /v2.0/cloud/thing/space/device: the devices
\* that follow last_id, at most as many as it is willing to return this time
VendorDevicePage(plan, reqNo, lastId) ==
    LET devices == SpaceDevices(plan)
        from    == IF lastId = 0 THEN 0 ELSE lastId - 100
        want    == IF reqNo <= Len(plan.sizes) THEN plan.sizes[reqNo] ELSE 0
        upTo    == IF from + want <= Len(devices) THEN from + want ELSE Len(devices)
    IN  SubSeq(devices, from + 1, upTo)

ListCursorFirst(items) == items[1]

\* last_id = items[-1].get("id")
ListCursor(items) == items[Len(items)]

\* get_tuya_token() of lambda_handler, before the fetch
ListStart ==
    /\ pMode = "list" /\ pPc = "start"
    /\ IF pPlan.tokenOk
       THEN pPc' = "loop" /\ UNCHANGED pResp
       ELSE pPc' = "answered" /\ pResp' = [NoListResp EXCEPT !.status = 500]
    /\ UNCHANGED <<pMode, pPlan, pItems, pCursor, pSent, pGot>>
    /\ UNCHANGED otherThanPage

\* one iteration of the while loop of list_all_devices_in_space
ListStep ==
    /\ pMode = "list" /\ pPc = "loop"
    /\ pSent' = Append(pSent, pCursor)            \* last_id is sent when truthy
    /\ IF pPlan.failAt = Len(pSent) + 1
       THEN pPc' = "raised" /\ UNCHANGED <<pItems, pCursor, pGot>>
       ELSE LET items == VendorDevicePage(pPlan, Len(pSent) + 1, pCursor)
            IN  /\ pGot' = Append(pGot, [items |-> items, has_more |-> FALSE, key |-> 0])
                /\ IF items = <<>>
                   THEN pPc' = "returned" /\ UNCHANGED <<pItems, pCursor>>
                   ELSE /\ pItems' = pItems \o items
                        /\ pCursor' = ListCursor(items)
                        /\ pPc' = IF Len(items) < PageSize THEN "returned" ELSE "loop"
    /\ UNCHANGED <<pMode, pPlan, pResp>>
    /\ UNCHANGED otherThanPage

\* the rest of lambda_handler: the cleaned list, or the except branch
ListAnswer ==
    /\ pMode = "list" /\ pPc \in {"returned", "raised"}
    /\ pResp' = IF pPc = "raised"
                THEN [NoListResp EXCEPT !.status = 500]
                ELSE [status |-> 200, has |-> TRUE,
                      ids |-> {pItems[i] : i \in 1..Len(pItems)}, count |-> Len(pItems)]
    /\ pPc' = "answered"
    /\ UNCHANGED <<pMode, pPlan, pItems, pCursor, pSent, pGot>>
    /\ UNCHANGED otherThanPage

\* a page of the switch log: n entries, has_more, and last_row_key, which is
\* "some" (a key), "empty" ("") or "absent"
LogPage(n, more, key) == [n |-> n, has_more |-> more, key |-> key]

\* the key the vendor hands out with its k-th page
RowKey(k) == 7 + 10 * k

LogEntries(k, n) == [i \in 1..n |-> 10 * k + i]

\* the vendor's answer to GET .../report-logs with this last_row_key
VendorLogPage(plan, rowKey) ==
    LET k == IF rowKey = 0 THEN 1 ELSE ((rowKey - 7) \div 10) + 1
    IN  IF k <= Len(plan.pages)
        THEN [items    |-> LogEntries(k, plan.pages[k].n),
              has_more |-> plan.pages[k].has_more,
              key      |-> IF plan.pages[k].key = "some" THEN RowKey(k) ELSE 0]
        ELSE [items |-> <<>>, has_more |-> FALSE, key |-> 0]

\* the mapping lookup succeeded; get_tuya_token() inside the inner try
CsvStart ==
    /\ pMode = "logs" /\ pPc = "start"
    /\ pPc' = IF pPlan.tokenOk THEN "loop" ELSE "raised"
    /\ UNCHANGED <<pMode, pPlan, pItems, pCursor, pSent, pGot, pResp>>
    /\ UNCHANGED otherThanPage

LogsContinueOnMore(page) == page.has_more

\* not (not has_more or not last_row_key)
LogsContinue(page) == page.has_more /\ page.key # 0

\* one iteration of the while loop of tuya_fetch_switch_logs
LogsStep ==
    /\ pMode = "logs" /\ pPc = "loop"
    /\ pSent' = Append(pSent, pCursor)            \* last_row_key is sent when truthy
    /\ IF pPlan.failAt = Len(pSent) + 1
       THEN pPc' = "raised" /\ UNCHANGED <<pItems, pCursor, pGot>>
       ELSE LET page == VendorLogPage(pPlan, pCursor)
            IN  /\ pGot' = Append(pGot, page)
                /\ pItems' = pItems \o page.items
                /\ pCursor' = page.key             \* result.get("last_row_key") or ""
                /\ pPc' = IF LogsContinue(page) THEN "loop" ELSE "returned"
    /\ UNCHANGED <<pMode, pPlan, pResp>>
    /\ UNCHANGED otherThanPage

PlugLogsKept(pc, logs) == logs

\* plug_logs = [] unless tuya_fetch_switch_logs returned
PlugLogs(pc, logs) == IF pc = "raised" THEN <<>> ELSE logs

\* build_csv and the response: one plug row per entry of plug_logs
CsvAnswer ==
    /\ pMode = "logs" /\ pPc \in {"returned", "raised"}
    /\ LET logs == PlugLogs(pPc, pItems)
       IN  pResp' = [status |-> 200, has |-> TRUE,
                     ids |-> {logs[i] : i \in 1..Len(logs)}, count |-> Len(logs)]
    /\ pPc' = "answered"
    /\ UNCHANGED <<pMode, pPlan, pItems, pCursor, pSent, pGot>>
    /\ UNCHANGED otherThanPage

PageNext == ListStart \/ ListStep \/ ListAnswer \/ CsvStart \/ LogsStep \/ CsvAnswer

-----------------------------------------------------------------------------
(* Inputs of the pagination specification *)

MaxPages == 4

MaxLogPages == 2

ServedSizes == {0, 5, PageSize}

RECURSIVE SeqsUpTo(_, _)
SeqsUpTo(S, n) ==
    IF n = 0 THEN {<<>>}
    ELSE LET shorter == SeqsUpTo(S, n - 1)
         IN  shorter \cup {Append(q, x) : q \in {y \in shorter : Len(y) = n - 1}, x \in S}

LogPages ==
    {LogPage(n, m, k) : n \in {0, 2}, m \in BOOLEAN, k \in {"some", "empty", "absent"}}

ListPlans ==
    {[sizes |-> s, pages |-> <<>>, failAt |-> f, tokenOk |-> ok] :
        s \in SeqsUpTo(ServedSizes, MaxPages), f \in 0..MaxPages, ok \in BOOLEAN}

LogPlans ==
    {[sizes |-> <<>>, pages |-> p, failAt |-> f, tokenOk |-> ok] :
        p \in SeqsUpTo(LogPages, MaxLogPages), f \in 0..MaxLogPages, ok \in BOOLEAN}

-----------------------------------------------------------------------------
(* Store queries and the device registry:                                  *)
(*   query_sensor_readings  download_sensor_and_plug_csv.py:211-223        *)
(*   lambda_handler         qingpingSensor_plug_mapping_list.py:65-102     *)
(*   fetch_qingping_devices, fetch_db_devices, lambda_handler              *)
(*                          qingping_list_devices.py:95-128, 130-135,      *)
(*                          138-168                                        *)
(*   save_bound_device      qingping_bind_device.py:113-130                *)
(* A device key (sensor_mac) is a positive number.  The store answers a    *)
(* query in pages of at most `split` items (0: all at once) and returns a  *)
(* LastEvaluatedKey with every page but the last.                          *)

\* the items a query matches, cut into the pages the store returns
RECURSIVE StorePages(_, _)
StorePages(items, split) ==
    IF split = 0 \/ Len(items) <= split THEN <<items>>
    ELSE <<SubSeq(items, 1, split)>> \o StorePages(SubSeq(items, split + 1, Len(items)), split)

\* while True: query, extend, follow LastEvaluatedKey until there is none
RECURSIVE QueryToCompletion(_)
QueryToCompletion(pages) ==
    IF Len(pages) = 1 THEN Head(pages)
    ELSE Head(pages) \o QueryToCompletion(Tail(pages))

\* a single table.query(...): resp.get("Items", [])
QueryOnce(pages) == Head(pages)

\* the elements of a set of numbers, ascending
RECURSIVE Ascending(_)
Ascending(S) ==
    IF S = {} THEN <<>>
    ELSE LET least == CHOOSE x \in S : \A y \in S : x <= y
         IN  <<least>> \o Ascending(S \ {least})

Range(s) == {s[i] : i \in 1..Len(s)}

SharedUser == "qingping_shared"

VendorLimit == 50

SmallKeys == 1..2

BulkKeys == 3..(VendorLimit + 1)

DeviceKeys == SmallKeys \cup BulkKeys

NoEntry == [present |-> FALSE, user_id |-> "", bound_at |-> 0]

\* info.created_at of the vendor's device record
VendorCreatedAt == 1

\* int(time.time()) when the bind handler runs
BindTime == 5

\* the item fetch_qingping_devices builds for a device
SyncItem == [present |-> TRUE, user_id |-> SharedUser, bound_at |-> VendorCreatedAt]

\* the item save_bound_device puts
BoundItem(user) == [present |-> TRUE, user_id |-> user, bound_at |-> BindTime]

\* GET devices?limit=50&offset=0: the first VendorLimit devices of the account
FetchQingpingDevices(remote) ==
    LET all == Ascending(remote)
    IN  Range(SubSeq(all, 1, IF Len(all) <= VendorLimit THEN Len(all) ELSE VendorLimit))

\* what the query on the user_id index matches
MatchingDevices(registry) ==
    Ascending({k \in DeviceKeys : registry[k].present /\ registry[k].user_id = SharedUser})

FetchDbDevicesAll(registry, split) == QueryToCompletion(StorePages(MatchingDevices(registry), split))

\* fetch_db_devices
FetchDbDevices(registry, split) == QueryOnce(StorePages(MatchingDevices(registry), split))

NoQuery == [who |-> "none", matching |-> <<>>, split |-> 0, got |-> <<>>]

NoSync == [status |-> 0, puts |-> {}, deletes |-> {}]

MaxSyncs == 2

MaxMatching == 8

StoreSplits == {0, 1, 2, 3}

\* lambda_handler of qingping_list_devices.py
Sync ==
    /\ sSyncs < MaxSyncs
    /\ sSyncs' = sSyncs + 1
    /\ \E vendorOk \in BOOLEAN, split \in StoreSplits :
         IF ~vendorOk
         THEN /\ sOut' = [NoSync EXCEPT !.status = 500]
              /\ UNCHANGED sRegistry
         ELSE \E fetched \in {FetchQingpingDevices(sRemote)},
                 local \in {Range(FetchDbDevices(sRegistry, split))} :
              \E puts \in {fetched \ local}, deletes \in {local \ fetched} :
                  /\ sRegistry' = [k \in DeviceKeys |->
                                     IF k \in puts THEN SyncItem
                                     ELSE IF k \in deletes THEN NoEntry
                                     ELSE sRegistry[k]]
                  /\ sOut' = [status |-> 200, puts |-> puts, deletes |-> deletes]
    /\ UNCHANGED <<sRemote, sQuery>>
    /\ UNCHANGED otherThanRegistry

\* lambda_handler of qingping_bind_device.py: the vendor binds the device to
\* the account, save_bound_device writes the entry
Bind ==
    /\ \E k \in SmallKeys, user \in {"dev", SharedUser} :
         /\ sRemote' = sRemote \cup {k}
         /\ sRegistry' = [sRegistry EXCEPT ![k] = BoundItem(user)]
    /\ UNCHANGED <<sOut, sQuery, sSyncs>>
    /\ UNCHANGED otherThanRegistry

\* the account's owner removes a device at the vendor
VendorUnbind ==
    /\ \E k \in sRemote \cap SmallKeys : sRemote' = sRemote \ {k}
    /\ UNCHANGED <<sRegistry, sOut, sQuery, sSyncs>>
    /\ UNCHANGED otherThanRegistry

\* the account's owner adds a device at the vendor
VendorBind ==
    /\ \E k \in SmallKeys \ sRemote : sRemote' = sRemote \cup {k}
    /\ UNCHANGED <<sRegistry, sOut, sQuery, sSyncs>>
    /\ UNCHANGED otherThanRegistry

\* the three store queries, each over n matching items
StoreQuery(who, n, split) ==
    LET matching == [i \in 1..n |-> 200 + i]
        pages    == StorePages(matching, split)
    IN  [who |-> who, matching |-> matching, split |-> split,
         got |-> CASE who = "readings" -> QueryToCompletion(pages)   \* query_sensor_readings
                   [] who = "registry" -> QueryOnce(pages)           \* fetch_db_devices
                   [] who = "mappings" -> QueryOnce(pages)]          \* mapping list handler

ReadingsQuery ==
    /\ \E n \in 0..MaxMatching, split \in StoreSplits : sQuery' = StoreQuery("readings", n, split)
    /\ UNCHANGED <<sRegistry, sRemote, sOut, sSyncs>>
    /\ UNCHANGED otherThanRegistry

RegistryQuery ==
    /\ \E n \in 0..MaxMatching, split \in StoreSplits : sQuery' = StoreQuery("registry", n, split)
    /\ UNCHANGED <<sRegistry, sRemote, sOut, sSyncs>>
    /\ UNCHANGED otherThanRegistry

MappingListQuery ==
    /\ \E n \in 0..MaxMatching, split \in StoreSplits : sQuery' = StoreQuery("mappings", n, split)
    /\ UNCHANGED <<sRegistry, sRemote, sOut, sSyncs>>
    /\ UNCHANGED otherThanRegistry

StoreQueryNext == ReadingsQuery \/ RegistryQuery \/ MappingListQuery

RegistryNext == Sync \/ Bind \/ VendorUnbind \/ VendorBind

-----------------------------------------------------------------------------
(* The sensor-plug mapping of one sensor: upsert_mapping and lambda_handler *)
(* of qingpingSensor_plug_bind.py:80-117, 119-172.                         *)

NoMapping == [present |-> FALSE, plug |-> 0, enabled |-> FALSE,
              created_at |-> 0, updated_at |-> 0]

\* if "created_at" in existing: keep it, else now; existing is what get_item
\* returned, {} when it raised
CreatedAt(existing, seen, now) ==
    IF seen /\ existing.present THEN existing.created_at ELSE now

\* the item upsert_mapping puts; seen is whether get_item succeeded
UpsertItem(existing, seen, now, plug, enabled) ==
    [present |-> TRUE, plug |-> plug, enabled |-> enabled,
     created_at |-> CreatedAt(existing, seen, now), updated_at |-> now]

MaxMapClock == 3

PlugIds == {7, 8}

NoMappingCall == [op |-> "none", at |-> 0, seen |-> TRUE, fresh |-> FALSE]

\* lambda_handler with a tuya_device_id, one instance at a time
MappingUpsert ==
    /\ \E plug \in PlugIds, enabled \in BOOLEAN, seen \in BOOLEAN, putOk \in BOOLEAN :
         IF putOk
         THEN /\ mStore' = UpsertItem(mStore, seen, mClock, plug, enabled)
              /\ mFirst' = IF mStore.present THEN mFirst ELSE mClock
              /\ mLast' = [op |-> "upsert", at |-> mClock, seen |-> seen,
                           fresh |-> ~mStore.present]
         ELSE /\ mLast' = [op |-> "failed", at |-> mClock, seen |-> seen,
                           fresh |-> ~mStore.present]
              /\ UNCHANGED <<mStore, mFirst>>
    /\ UNCHANGED <<mClock, uPc, uNow, uSeen>>
    /\ UNCHANGED otherThanMap

\* lambda_handler with "delete": true
MappingDelete ==
    /\ mStore' = NoMapping
    /\ mFirst' = 0
    /\ mLast' = [op |-> "delete", at |-> mClock, seen |-> TRUE, fresh |-> ~mStore.present]
    /\ UNCHANGED <<mClock, uPc, uNow, uSeen>>
    /\ UNCHANGED otherThanMap

MappingTick ==
    /\ mClock < MaxMapClock
    /\ mClock' = mClock + 1
    /\ UNCHANGED <<mStore, mFirst, mLast, uPc, uNow, uSeen>>
    /\ UNCHANGED otherThanMap

MappingNext == MappingUpsert \/ MappingDelete \/ MappingTick

-----------------------------------------------------------------------------
(* Concurrent handler instances on the mapping of one sensor: the clock    *)
(* sample, the get_item and the put_item of upsert_mapping are steps of    *)
(* their own; a delete is one delete_item.                                 *)

NInstances == 2

Instances == 1..NInstances

\* now = int(time.time())
UStart(i) ==
    /\ uPc[i] = "idle"
    /\ uPc' = [uPc EXCEPT ![i] = "sampled"]
    /\ uNow' = [uNow EXCEPT ![i] = mClock]
    /\ UNCHANGED <<mStore, mClock, mFirst, mLast, uSeen>>
    /\ UNCHANGED otherThanMap

\* mapping_table.get_item
URead(i) ==
    /\ uPc[i] = "sampled"
    /\ uPc' = [uPc EXCEPT ![i] = "read"]
    /\ \E seen \in BOOLEAN :
         uSeen' = [uSeen EXCEPT ![i] = IF seen THEN mStore ELSE NoMapping]
    /\ UNCHANGED <<mStore, mClock, mFirst, mLast, uNow>>
    /\ UNCHANGED otherThanMap

\* mapping_table.put_item
UWrite(i) ==
    /\ uPc[i] = "read"
    /\ uPc' = [uPc EXCEPT ![i] = "idle"]
    /\ \E plug \in PlugIds :
         mStore' = UpsertItem(uSeen[i], TRUE, uNow[i], plug, TRUE)
    /\ uSeen' = [uSeen EXCEPT ![i] = NoMapping]
    /\ UNCHANGED <<mClock, mFirst, mLast, uNow>>
    /\ UNCHANGED otherThanMap

\* mapping_table.delete_item
UDelete(i) ==
    /\ uPc[i] = "idle"
    /\ mStore' = NoMapping
    /\ UNCHANGED <<mClock, mFirst, mLast, uPc, uNow, uSeen>>
    /\ UNCHANGED otherThanMap

MappingRaceNext ==
    \/ \E i \in Instances : UStart(i) \/ URead(i) \/ UWrite(i) \/ UDelete(i)
    \/ MappingTick

-----------------------------------------------------------------------------
(* Signing of the vendor requests: _tuya_sign and tuya_request,            *)
(* download_sensor_and_plug_csv.py:120-184, and the inline signing of      *)
(* get_tuya_token, control_plug and read_plug_status,                      *)
(* lambda_function.py:155-235, 273-297.  A text is a sequence of symbols;  *)
(* the fixed pieces of a request (method, path prefix, JSON skeleton) are  *)
(* one symbol each.                                                        *)

\* hashlib.sha256(s).hexdigest(): an unkeyed digest, two hex digits wide
Sha256Hex(s) ==
    LET h == Absorb(11, s)
    IN  <<HexDigits[(h \div 16) + 1], HexDigits[(h % 16) + 1]>>

\* TUYA_ACCESS_ID / ACCESS_ID and TUYA_ACCESS_SECRET / ACCESS_SECRET: both
\* modules read the same environment variables
AccessId == <<"A", "1">>

AccessSecret == <<"k", "5">>

\* _tuya_sign
TuyaSign(method, path_with_query, body_str, access_token, t_ms, nonce) ==
    LET content_sha256 == IF body_str # <<>> THEN Sha256Hex(body_str) ELSE Sha256Hex(<<>>)
        string_to_sign == Upper(method) \o <<"\n">> \o content_sha256 \o <<"\n", "\n">>
                          \o path_with_query
        message == AccessId \o access_token \o t_ms \o nonce \o string_to_sign
    IN  Upper(HmacSha256Hex(AccessSecret, message))

\* json.dumps({"commands": [{"code": "switch_1", "value": state}]},
\* separators=(",", ":"))
CommandBody(state) ==
    <<"{\"commands\":[{\"code\":\"switch_1\",\"value\":",
      IF state THEN "true" ELSE "false", "}]}">>

NoRequest == [site |-> "none", method |-> <<>>, token |-> <<>>, t |-> <<>>, nonce |-> <<>>,
              sign |-> <<>>, path |-> <<>>, body |-> <<>>, header_token |-> <<>>]

\* get_tuya_token of lambda_function.py: the headers and the URL it sends
InlineTokenRequest(t, nonce) ==
    LET content_sha256 == Sha256Hex(<<>>)
        string_to_sign == <<"GET", "\n">> \o content_sha256 \o <<"\n", "\n">>
                          \o <<"/v1.0/token?grant_type=1">>
        message == AccessId \o t \o nonce \o string_to_sign
    IN  [site |-> "get_tuya_token", method |-> <<"GET">>, token |-> <<>>, t |-> t,
         nonce |-> nonce, sign |-> Upper(HmacSha256Hex(AccessSecret, message)),
         path |-> <<"/v1.0/token?grant_type=1">>, body |-> <<>>, header_token |-> <<>>]

ControlMessageNoToken(token, t, nonce, string_to_sign) ==
    AccessId \o t \o nonce \o string_to_sign

\* message = ACCESS_ID + token + t + nonce + string_to_sign
ControlMessage(token, t, nonce, string_to_sign) ==
    AccessId \o token \o t \o nonce \o string_to_sign

\* control_plug
InlineControlRequest(device_id, state, token, t, nonce) ==
    LET body_str == CommandBody(state)
        content_sha256 == Sha256Hex(body_str)
        path == <<"/v1.0/devices/">> \o device_id \o <<"/commands">>
        string_to_sign == <<"POST", "\n">> \o content_sha256 \o <<"\n", "\n">> \o path
        message == ControlMessage(token, t, nonce, string_to_sign)
    IN  [site |-> "control_plug", method |-> <<"POST">>, token |-> token, t |-> t,
         nonce |-> nonce, sign |-> Upper(HmacSha256Hex(AccessSecret, message)),
         path |-> path, body |-> body_str, header_token |-> token]

\* read_plug_status
InlineStatusRequest(device_id, token, t, nonce) ==
    LET content_sha256 == Sha256Hex(<<>>)
        path == <<"/v1.0/devices/">> \o device_id \o <<"/status">>
        string_to_sign == <<"GET", "\n">> \o content_sha256 \o <<"\n", "\n">> \o path
        message == AccessId \o token \o t \o nonce \o string_to_sign
    IN  [site |-> "read_plug_status", method |-> <<"GET">>, token |-> token, t |-> t,
         nonce |-> nonce, sign |-> Upper(HmacSha256Hex(AccessSecret, message)),
         path |-> path, body |-> <<>>, header_token |-> token]

\* tuya_request of download_sensor_and_plug_csv.py for a request without
\* query parameters: method.upper(), the body dumped when there is one, the
\* signature of _tuya_sign, and the URL and body handed to _http_json
TuyaRequestSigned(method, path, has_body, state, token, t, nonce) ==
    LET body_str == IF has_body THEN CommandBody(state) ELSE <<>>
    IN  [site |-> "tuya_request", method |-> Upper(method), token |-> token, t |-> t,
         nonce |-> nonce,
         sign |-> TuyaSign(Upper(method), path, body_str, token, t, nonce),
         path |-> path, body |-> body_str, header_token |-> token]

\* inputs
SignDevices == {<<"7">>, <<"8">>, <<"a", "7">>}

SignTokens == {<<"t">>, <<"t", "0">>, <<>>}

SignTimes == {<<"1">>, <<"2">>, <<"1", "0">>}

SignNonces == {<<"n">>, <<"k">>}

SignToken ==
    /\ \E t \in SignTimes, nonce \in SignNonces : hReq' = InlineTokenRequest(t, nonce)
    /\ UNCHANGED otherThanSign

SignControl ==
    /\ \E d \in SignDevices, state \in BOOLEAN, token \in SignTokens,
          t \in SignTimes, nonce \in SignNonces :
            hReq' = InlineControlRequest(d, state, token, t, nonce)
    /\ UNCHANGED otherThanSign

SignStatus ==
    /\ \E d \in SignDevices, token \in SignTokens, t \in SignTimes, nonce \in SignNonces :
            hReq' = InlineStatusRequest(d, token, t, nonce)
    /\ UNCHANGED otherThanSign

SignTuyaRequest ==
    /\ \E method \in {<<"get">>, <<"GET">>, <<"POST">>}, d \in SignDevices,
          has_body \in BOOLEAN, token \in SignTokens, t \in SignTimes,
          nonce \in SignNonces :
            hReq' = TuyaRequestSigned(method, <<"/v1.0/devices/">> \o d \o <<"/commands">>,
                                      has_body, TRUE, token, t, nonce)
    /\ UNCHANGED otherThanSign

SignNext == SignToken \/ SignControl \/ SignStatus \/ SignTuyaRequest

-----------------------------------------------------------------------------
(* The sensor id used as partition key: handle_qingping_webhook,           *)
(* lambda_function.py:116-136; _clean_sensor_mac and its callers,          *)
(* qingpingSensor_plug_bind.py:75-78, 136-138 and                          *)
(* download_sensor_and_plug_csv.py:81-82, 325-327.                         *)

\* str.strip()
RECURSIVE LStrip(_)
LStrip(s) == IF s # <<>> /\ Head(s) = " " THEN LStrip(Tail(s)) ELSE s

RECURSIVE RStrip(_)
RStrip(s) == IF s # <<>> /\ s[Len(s)] = " " THEN RStrip(SubSeq(s, 1, Len(s) - 1)) ELSE s

Strip(s) == RStrip(LStrip(s))

\* str.replace(c, "")
RECURSIVE Without(_, _)
Without(s, c) ==
    IF s = <<>> THEN <<>>
    ELSE IF Head(s) = c THEN Without(Tail(s), c)
    ELSE <<Head(s)>> \o Without(Tail(s), c)

\* _clean_sensor_mac
CleanSensorMac(mac) == Upper(Without(Without(Strip(mac), ":"), "-"))

NoKey == [given |-> <<>>, key |-> <<>>, used |-> FALSE]

\* handle_qingping_webhook: sensor_mac = info.get("mac") is the key of
\* save_sensor_reading and of get_plug_device_id_for_sensor
WebhookKey(mac) ==
    IF mac = <<>> THEN [given |-> mac, key |-> <<>>, used |-> FALSE]
    ELSE [given |-> mac, key |-> mac, used |-> TRUE]

\* the bind handler and the CSV export: _clean_sensor_mac, 400 when empty
CleanedKey(mac) ==
    LET k == CleanSensorMac(mac)
    IN  [given |-> mac, key |-> k, used |-> k # <<>>]

\* the ways one MAC is written
MacForms == {<<"C", "B", "5", "D">>, <<"c", "b", "5", "d">>, <<"C", "B", ":", "5", "D">>,
             <<"c", "b", "-", "5", "d">>, <<" ", "C", "B", "5", "D", " ">>,
             <<"0", "1", "2", "3">>, <<":">>, <<>>}

WebhookStores ==
    /\ \E mac \in MacForms : kWebhook' = WebhookKey(mac)
    /\ UNCHANGED <<kBind, kCsv>>
    /\ UNCHANGED otherThanKey

BindWrites ==
    /\ \E mac \in MacForms : kBind' = CleanedKey(mac)
    /\ UNCHANGED <<kWebhook, kCsv>>
    /\ UNCHANGED otherThanKey

CsvQueries ==
    /\ \E mac \in MacForms : kCsv' = CleanedKey(mac)
    /\ UNCHANGED <<kWebhook, kBind>>
    /\ UNCHANGED otherThanKey

KeyNext == WebhookStores \/ BindWrites \/ CsvQueries

-----------------------------------------------------------------------------
(* The two pagination loops against a vendor that may answer anything:     *)
(* list_all_devices_in_space, fetch_tuya_plugs_list.py:123-157, and        *)
(* tuya_fetch_switch_logs, download_sensor_and_plug_csv.py:225-251.  Only  *)
(* what decides the next request is kept: the cursor, and the cursors      *)
(* already sent.                                                           *)

\* the ids and row keys the vendor may hand out are 1..MaxCursor
MaxCursor == 3

\* a call of one of the two fetchers
LoopStart ==
    /\ lPc \in {"idle", "returned", "raised"}
    /\ lMode' \in {"list", "logs"}
    /\ lPc' = "loop"
    /\ lCursor' = 0
    /\ lSent' = {}
    /\ lRepeated' = FALSE
    /\ UNCHANGED otherThanLoop

\* one iteration of the while loop of list_all_devices_in_space: the vendor
\* answers n items, the last of them with id lastId (0: it has no "id"), or
\* the request raises
ListLoopStep ==
    /\ lMode = "list" /\ lPc = "loop"
    /\ lSent' = lSent \cup {lCursor}
    /\ lRepeated' = (lRepeated \/ lCursor \in lSent)
    /\ \E ok \in BOOLEAN, n \in ServedSizes, lastId \in 0..MaxCursor :
          IF ~ok THEN lPc' = "raised" /\ UNCHANGED lCursor
          ELSE IF n = 0 THEN lPc' = "returned" /\ UNCHANGED lCursor
          ELSE /\ lCursor' = lastId
               /\ lPc' = IF n < PageSize THEN "returned" ELSE "loop"
    /\ UNCHANGED lMode
    /\ UNCHANGED otherThanLoop

\* one iteration of the while loop of tuya_fetch_switch_logs: the vendor
\* answers has_more and last_row_key (0: "" or absent), or the request raises
LogsLoopStep ==
    /\ lMode = "logs" /\ lPc = "loop"
    /\ lSent' = lSent \cup {lCursor}
    /\ lRepeated' = (lRepeated \/ lCursor \in lSent)
    /\ \E ok \in BOOLEAN, has_more \in BOOLEAN, key \in 0..MaxCursor :
          IF ~ok THEN lPc' = "raised" /\ UNCHANGED lCursor
          ELSE /\ lCursor' = key
               /\ lPc' = IF LogsContinue([has_more |-> has_more, key |-> key])
                          THEN "loop" ELSE "returned"
    /\ UNCHANGED lMode
    /\ UNCHANGED otherThanLoop

LoopNext == LoopStart \/ ListLoopStep \/ LogsLoopStep

-----------------------------------------------------------------------------
(* Specifications of the mapping store *)

MappingInit ==
    /\ mStore = NoMapping
    /\ mClock = 0
    /\ mFirst = 0
    /\ mLast = NoMappingCall
    /\ uPc = [i \in Instances |-> "idle"]
    /\ uNow = [i \in Instances |-> 0]
    /\ uSeen = [i \in Instances |-> NoMapping]
    /\ vSecret = <<>>
    /\ vBlock = IdleBlock
    /\ vResult = "pending"
    /\ vServer = "pending"
    /\ tImpl = "webhook"
    /\ tCfg = TRUE
    /\ clock = 0
    /\ cache = EmptyCache
    /\ grant = NoGrant
    /\ tLast = NoCall
    /\ rPc = [i \in Threads |-> "idle"]
    /\ rNow = [i \in Threads |-> 0]
    /\ rGot = [i \in Threads |-> [token |-> NoToken, ttl |-> [has |-> FALSE, v |-> 0]]]
    /\ rServed = NothingServed
    /\ issued = <<>>
    /\ wSecret = WebSecret
    /\ readings = EmptyReadings
    /\ mapping = [present |-> FALSE, enabled |-> FALSE, plug |-> 0]
    /\ wEvent = NoEvent
    /\ wResp = Response(0, "none")
    /\ wEffects = <<>>
    /\ wCount = 0
    /\ wInputs = NoInputs
    /\ qQuery = [none |-> TRUE, items |-> <<>>]
    /\ qOut = NoOut
    /\ pMode = "none"
    /\ pPlan = NoPlan
    /\ pItems = <<>>
    /\ pCursor = 0
    /\ pSent = <<>>
    /\ pGot = <<>>
    /\ pPc = "start"
    /\ pResp = NoListResp
    /\ sRegistry = [k \in DeviceKeys |-> NoEntry]
    /\ sRemote = {}
    /\ sOut = NoSync
    /\ sQuery = NoQuery
    /\ sSyncs = 0
    /\ hReq = NoRequest
    /\ kWebhook = NoKey
    /\ kBind = NoKey
    /\ kCsv = NoKey
    /\ lMode = "none"
    /\ lPc = "idle"
    /\ lCursor = 0
    /\ lSent = {}
    /\ lRepeated = FALSE

SpecMapping == MappingInit /\ [][MappingNext]_vars

MappingRaceInit ==
    /\ mStore = NoMapping
    /\ mClock = 0
    /\ mFirst = 0
    /\ mLast = NoMappingCall
    /\ uPc = [i \in Instances |-> "idle"]
    /\ uNow = [i \in Instances |-> 0]
    /\ uSeen = [i \in Instances |-> NoMapping]
    /\ vSecret = <<>>
    /\ vBlock = IdleBlock
    /\ vResult = "pending"
    /\ vServer = "pending"
    /\ tImpl = "webhook"
    /\ tCfg = TRUE
    /\ clock = 0
    /\ cache = EmptyCache
    /\ grant = NoGrant
    /\ tLast = NoCall
    /\ rPc = [i \in Threads |-> "idle"]
    /\ rNow = [i \in Threads |-> 0]
    /\ rGot = [i \in Threads |-> [token |-> NoToken, ttl |-> [has |-> FALSE, v |-> 0]]]
    /\ rServed = NothingServed
    /\ issued = <<>>
    /\ wSecret = WebSecret
    /\ readings = EmptyReadings
    /\ mapping = [present |-> FALSE, enabled |-> FALSE, plug |-> 0]
    /\ wEvent = NoEvent
    /\ wResp = Response(0, "none")
    /\ wEffects = <<>>
    /\ wCount = 0
    /\ wInputs = NoInputs
    /\ qQuery = [none |-> TRUE, items |-> <<>>]
    /\ qOut = NoOut
    /\ pMode = "none"
    /\ pPlan = NoPlan
    /\ pItems = <<>>
    /\ pCursor = 0
    /\ pSent = <<>>
    /\ pGot = <<>>
    /\ pPc = "start"
    /\ pResp = NoListResp
    /\ sRegistry = [k \in DeviceKeys |-> NoEntry]
    /\ sRemote = {}
    /\ sOut = NoSync
    /\ sQuery = NoQuery
    /\ sSyncs = 0
    /\ hReq = NoRequest
    /\ kWebhook = NoKey
    /\ kBind = NoKey
    /\ kCsv = NoKey
    /\ lMode = "none"
    /\ lPc = "idle"
    /\ lCursor = 0
    /\ lSent = {}
    /\ lRepeated = FALSE

SpecMappingRace == MappingRaceInit /\ [][MappingRaceNext]_vars

-----------------------------------------------------------------------------
(* Specification of the device registry and the store queries *)

RegistryInit ==
    /\ \E bulkLocal \in BOOLEAN :
         sRegistry = [k \in DeviceKeys |-> IF bulkLocal /\ k \in BulkKeys THEN SyncItem ELSE NoEntry]
    /\ sRemote \in {{}, BulkKeys}
    /\ sOut = NoSync
    /\ sQuery = NoQuery
    /\ sSyncs = 0
    /\ vSecret = <<>>
    /\ vBlock = IdleBlock
    /\ vResult = "pending"
    /\ vServer = "pending"
    /\ tImpl = "webhook"
    /\ tCfg = TRUE
    /\ clock = 0
    /\ cache = EmptyCache
    /\ grant = NoGrant
    /\ tLast = NoCall
    /\ rPc = [i \in Threads |-> "idle"]
    /\ rNow = [i \in Threads |-> 0]
    /\ rGot = [i \in Threads |-> [token |-> NoToken, ttl |-> [has |-> FALSE, v |-> 0]]]
    /\ rServed = NothingServed
    /\ issued = <<>>
    /\ wSecret = WebSecret
    /\ readings = EmptyReadings
    /\ mapping = [present |-> FALSE, enabled |-> FALSE, plug |-> 0]
    /\ wEvent = NoEvent
    /\ wResp = Response(0, "none")
    /\ wEffects = <<>>
    /\ wCount = 0
    /\ wInputs = NoInputs
    /\ qQuery = [none |-> TRUE, items |-> <<>>]
    /\ qOut = NoOut
    /\ pMode = "none"
    /\ pPlan = NoPlan
    /\ pItems = <<>>
    /\ pCursor = 0
    /\ pSent = <<>>
    /\ pGot = <<>>
    /\ pPc = "start"
    /\ pResp = NoListResp
    /\ mStore = NoMapping
    /\ mClock = 0
    /\ mFirst = 0
    /\ mLast = NoMappingCall
    /\ uPc = [i \in Instances |-> "idle"]
    /\ uNow = [i \in Instances |-> 0]
    /\ uSeen = [i \in Instances |-> NoMapping]
    /\ hReq = NoRequest
    /\ kWebhook = NoKey
    /\ kBind = NoKey
    /\ kCsv = NoKey
    /\ lMode = "none"
    /\ lPc = "idle"
    /\ lCursor = 0
    /\ lSent = {}
    /\ lRepeated = FALSE

SpecRegistry == RegistryInit /\ [][RegistryNext]_vars

StoreQueryInit ==
    /\ sRegistry = [k \in DeviceKeys |-> NoEntry]
    /\ sRemote = {}
    /\ sOut = NoSync
    /\ sQuery = NoQuery
    /\ sSyncs = 0
    /\ vSecret = <<>>
    /\ vBlock = IdleBlock
    /\ vResult = "pending"
    /\ vServer = "pending"
    /\ tImpl = "webhook"
    /\ tCfg = TRUE
    /\ clock = 0
    /\ cache = EmptyCache
    /\ grant = NoGrant
    /\ tLast = NoCall
    /\ rPc = [i \in Threads |-> "idle"]
    /\ rNow = [i \in Threads |-> 0]
    /\ rGot = [i \in Threads |-> [token |-> NoToken, ttl |-> [has |-> FALSE, v |-> 0]]]
    /\ rServed = NothingServed
    /\ issued = <<>>
    /\ wSecret = WebSecret
    /\ readings = EmptyReadings
    /\ mapping = [present |-> FALSE, enabled |-> FALSE, plug |-> 0]
    /\ wEvent = NoEvent
    /\ wResp = Response(0, "none")
    /\ wEffects = <<>>
    /\ wCount = 0
    /\ wInputs = NoInputs
    /\ qQuery = [none |-> TRUE, items |-> <<>>]
    /\ qOut = NoOut
    /\ pMode = "none"
    /\ pPlan = NoPlan
    /\ pItems = <<>>
    /\ pCursor = 0
    /\ pSent = <<>>
    /\ pGot = <<>>
    /\ pPc = "start"
    /\ pResp = NoListResp
    /\ mStore = NoMapping
    /\ mClock = 0
    /\ mFirst = 0
    /\ mLast = NoMappingCall
    /\ uPc = [i \in Instances |-> "idle"]
    /\ uNow = [i \in Instances |-> 0]
    /\ uSeen = [i \in Instances |-> NoMapping]
    /\ hReq = NoRequest
    /\ kWebhook = NoKey
    /\ kBind = NoKey
    /\ kCsv = NoKey
    /\ lMode = "none"
    /\ lPc = "idle"
    /\ lCursor = 0
    /\ lSent = {}
    /\ lRepeated = FALSE

SpecStoreQuery == StoreQueryInit /\ [][StoreQueryNext]_vars

-----------------------------------------------------------------------------
(* Specification of the paginated listings *)

PageInit ==
    /\ \E m \in {"list", "logs"} :
        /\ pMode = m
        /\ pPlan \in (IF m = "list" THEN ListPlans ELSE LogPlans)
    /\ pItems = <<>>
    /\ pCursor = 0
    /\ pSent = <<>>
    /\ pGot = <<>>
    /\ pPc = "start"
    /\ pResp = NoListResp
    /\ vSecret = <<>>
    /\ vBlock = IdleBlock
    /\ vResult = "pending"
    /\ vServer = "pending"
    /\ tImpl = "webhook"
    /\ tCfg = TRUE
    /\ clock = 0
    /\ cache = EmptyCache
    /\ grant = NoGrant
    /\ tLast = NoCall
    /\ rPc = [i \in Threads |-> "idle"]
    /\ rNow = [i \in Threads |-> 0]
    /\ rGot = [i \in Threads |-> [token |-> NoToken, ttl |-> [has |-> FALSE, v |-> 0]]]
    /\ rServed = NothingServed
    /\ issued = <<>>
    /\ wSecret = WebSecret
    /\ readings = EmptyReadings
    /\ mapping = [present |-> FALSE, enabled |-> FALSE, plug |-> 0]
    /\ wEvent = NoEvent
    /\ wResp = Response(0, "none")
    /\ wEffects = <<>>
    /\ wCount = 0
    /\ wInputs = NoInputs
    /\ qQuery = [none |-> TRUE, items |-> <<>>]
    /\ qOut = NoOut
    /\ sRegistry = [k \in DeviceKeys |-> NoEntry]
    /\ sRemote = {}
    /\ sOut = NoSync
    /\ sQuery = NoQuery
    /\ sSyncs = 0
    /\ mStore = NoMapping
    /\ mClock = 0
    /\ mFirst = 0
    /\ mLast = NoMappingCall
    /\ uPc = [i \in Instances |-> "idle"]
    /\ uNow = [i \in Instances |-> 0]
    /\ uSeen = [i \in Instances |-> NoMapping]
    /\ hReq = NoRequest
    /\ kWebhook = NoKey
    /\ kBind = NoKey
    /\ kCsv = NoKey
    /\ lMode = "none"
    /\ lPc = "idle"
    /\ lCursor = 0
    /\ lSent = {}
    /\ lRepeated = FALSE

SpecPages == PageInit /\ [][PageNext]_vars

-----------------------------------------------------------------------------
(* Specification of the webhook entry point *)

WebInit ==
    /\ wSecret = WebSecret
    /\ readings = EmptyReadings
    /\ mapping \in Mappings
    /\ wEvent = NoEvent
    /\ wResp = Response(0, "none")
    /\ wEffects = <<>>
    /\ wCount = 0
    /\ wInputs = NoInputs
    /\ tImpl = "webhook"
    /\ tCfg = TRUE
    /\ clock = 0
    /\ cache = EmptyCache
    /\ grant = NoGrant
    /\ tLast = NoCall
    /\ rPc = [i \in Threads |-> "idle"]
    /\ rNow = [i \in Threads |-> 0]
    /\ rGot = [i \in Threads |-> [token |-> NoToken, ttl |-> [has |-> FALSE, v |-> 0]]]
    /\ rServed = NothingServed
    /\ issued = <<>>
    /\ vSecret = <<>>
    /\ vBlock = IdleBlock
    /\ vResult = "pending"
    /\ vServer = "pending"
    /\ qQuery = [none |-> TRUE, items |-> <<>>]
    /\ qOut = NoOut
    /\ pMode = "none"
    /\ pPlan = NoPlan
    /\ pItems = <<>>
    /\ pCursor = 0
    /\ pSent = <<>>
    /\ pGot = <<>>
    /\ pPc = "start"
    /\ pResp = NoListResp
    /\ sRegistry = [k \in DeviceKeys |-> NoEntry]
    /\ sRemote = {}
    /\ sOut = NoSync
    /\ sQuery = NoQuery
    /\ sSyncs = 0
    /\ mStore = NoMapping
    /\ mClock = 0
    /\ mFirst = 0
    /\ mLast = NoMappingCall
    /\ uPc = [i \in Instances |-> "idle"]
    /\ uNow = [i \in Instances |-> 0]
    /\ uSeen = [i \in Instances |-> NoMapping]
    /\ hReq = NoRequest
    /\ kWebhook = NoKey
    /\ kBind = NoKey
    /\ kCsv = NoKey
    /\ lMode = "none"
    /\ lPc = "idle"
    /\ lCursor = 0
    /\ lSent = {}
    /\ lRepeated = FALSE

SpecWebhook == WebInit /\ [][WebNext]_vars

-----------------------------------------------------------------------------
(* Specification of the query canonicalisation *)

QueryInit ==
    /\ qQuery \in Queries
    /\ qOut = NoOut
    /\ wSecret = WebSecret
    /\ readings = EmptyReadings
    /\ mapping = [present |-> FALSE, enabled |-> FALSE, plug |-> 0]
    /\ wEvent = NoEvent
    /\ wResp = Response(0, "none")
    /\ wEffects = <<>>
    /\ wCount = 0
    /\ wInputs = NoInputs
    /\ tImpl = "webhook"
    /\ tCfg = TRUE
    /\ clock = 0
    /\ cache = EmptyCache
    /\ grant = NoGrant
    /\ tLast = NoCall
    /\ rPc = [i \in Threads |-> "idle"]
    /\ rNow = [i \in Threads |-> 0]
    /\ rGot = [i \in Threads |-> [token |-> NoToken, ttl |-> [has |-> FALSE, v |-> 0]]]
    /\ rServed = NothingServed
    /\ issued = <<>>
    /\ vSecret = <<>>
    /\ vBlock = IdleBlock
    /\ vResult = "pending"
    /\ vServer = "pending"
    /\ pMode = "none"
    /\ pPlan = NoPlan
    /\ pItems = <<>>
    /\ pCursor = 0
    /\ pSent = <<>>
    /\ pGot = <<>>
    /\ pPc = "start"
    /\ pResp = NoListResp
    /\ sRegistry = [k \in DeviceKeys |-> NoEntry]
    /\ sRemote = {}
    /\ sOut = NoSync
    /\ sQuery = NoQuery
    /\ sSyncs = 0
    /\ mStore = NoMapping
    /\ mClock = 0
    /\ mFirst = 0
    /\ mLast = NoMappingCall
    /\ uPc = [i \in Instances |-> "idle"]
    /\ uNow = [i \in Instances |-> 0]
    /\ uSeen = [i \in Instances |-> NoMapping]
    /\ hReq = NoRequest
    /\ kWebhook = NoKey
    /\ kBind = NoKey
    /\ kCsv = NoKey
    /\ lMode = "none"
    /\ lPc = "idle"
    /\ lCursor = 0
    /\ lSent = {}
    /\ lRepeated = FALSE

SpecQuery == QueryInit /\ [][QueryNext]_vars

-----------------------------------------------------------------------------
(* Specification of concurrent callers *)

RaceInit ==
    /\ rPc = [i \in Threads |-> "idle"]
    /\ rNow = [i \in Threads |-> 0]
    /\ rGot = [i \in Threads |-> [token |-> NoToken, ttl |-> [has |-> FALSE, v |-> 0]]]
    /\ rServed = NothingServed
    /\ issued = <<>>
    /\ tImpl = "plugs"
    /\ tCfg = TRUE
    /\ clock = 0
    /\ cache = EmptyCache
    /\ grant = NoGrant
    /\ tLast = NoCall
    /\ vSecret = <<>>
    /\ vBlock = IdleBlock
    /\ vResult = "pending"
    /\ vServer = "pending"
    /\ wSecret = WebSecret
    /\ readings = EmptyReadings
    /\ mapping = [present |-> FALSE, enabled |-> FALSE, plug |-> 0]
    /\ wEvent = NoEvent
    /\ wResp = Response(0, "none")
    /\ wEffects = <<>>
    /\ wCount = 0
    /\ wInputs = NoInputs
    /\ qQuery = [none |-> TRUE, items |-> <<>>]
    /\ qOut = NoOut
    /\ pMode = "none"
    /\ pPlan = NoPlan
    /\ pItems = <<>>
    /\ pCursor = 0
    /\ pSent = <<>>
    /\ pGot = <<>>
    /\ pPc = "start"
    /\ pResp = NoListResp
    /\ sRegistry = [k \in DeviceKeys |-> NoEntry]
    /\ sRemote = {}
    /\ sOut = NoSync
    /\ sQuery = NoQuery
    /\ sSyncs = 0
    /\ mStore = NoMapping
    /\ mClock = 0
    /\ mFirst = 0
    /\ mLast = NoMappingCall
    /\ uPc = [i \in Instances |-> "idle"]
    /\ uNow = [i \in Instances |-> 0]
    /\ uSeen = [i \in Instances |-> NoMapping]
    /\ hReq = NoRequest
    /\ kWebhook = NoKey
    /\ kBind = NoKey
    /\ kCsv = NoKey
    /\ lMode = "none"
    /\ lPc = "idle"
    /\ lCursor = 0
    /\ lSent = {}
    /\ lRepeated = FALSE

SpecRace == RaceInit /\ [][RaceNext]_vars

-----------------------------------------------------------------------------
(* Specification of one process's token cache *)

TokenNext == Tick \/ GetTokenCall

TokenInit ==
    /\ tImpl \in Impls
    /\ tCfg \in BOOLEAN
    /\ clock = 0
    /\ cache = EmptyCache
    /\ grant = NoGrant
    /\ tLast = NoCall
    /\ vSecret = <<>>
    /\ vBlock = IdleBlock
    /\ vResult = "pending"
    /\ vServer = "pending"
    /\ rPc = [i \in Threads |-> "idle"]
    /\ rNow = [i \in Threads |-> 0]
    /\ rGot = [i \in Threads |-> [token |-> NoToken, ttl |-> [has |-> FALSE, v |-> 0]]]
    /\ rServed = NothingServed
    /\ issued = <<>>
    /\ wSecret = WebSecret
    /\ readings = EmptyReadings
    /\ mapping = [present |-> FALSE, enabled |-> FALSE, plug |-> 0]
    /\ wEvent = NoEvent
    /\ wResp = Response(0, "none")
    /\ wEffects = <<>>
    /\ wCount = 0
    /\ wInputs = NoInputs
    /\ qQuery = [none |-> TRUE, items |-> <<>>]
    /\ qOut = NoOut
    /\ pMode = "none"
    /\ pPlan = NoPlan
    /\ pItems = <<>>
    /\ pCursor = 0
    /\ pSent = <<>>
    /\ pGot = <<>>
    /\ pPc = "start"
    /\ pResp = NoListResp
    /\ sRegistry = [k \in DeviceKeys |-> NoEntry]
    /\ sRemote = {}
    /\ sOut = NoSync
    /\ sQuery = NoQuery
    /\ sSyncs = 0
    /\ mStore = NoMapping
    /\ mClock = 0
    /\ mFirst = 0
    /\ mLast = NoMappingCall
    /\ uPc = [i \in Instances |-> "idle"]
    /\ uNow = [i \in Instances |-> 0]
    /\ uSeen = [i \in Instances |-> NoMapping]
    /\ hReq = NoRequest
    /\ kWebhook = NoKey
    /\ kBind = NoKey
    /\ kCsv = NoKey
    /\ lMode = "none"
    /\ lPc = "idle"
    /\ lCursor = 0
    /\ lSent = {}
    /\ lRepeated = FALSE

SpecToken == TokenInit /\ [][TokenNext]_vars

-----------------------------------------------------------------------------
(* Specification of signature verification *)

VerifyInit ==
    /\ vSecret \in Secrets
    /\ \E kind \in {"dict", "notdict"}, ts \in TimestampValues, token \in TokenValues :
         \E sig \in SignatureValues(vSecret, ts, token) :
            vBlock = [kind |-> kind, timestamp |-> ts, token |-> token, signature |-> sig]
    /\ vResult = "pending"
    /\ vServer = "pending"
    /\ tImpl = "webhook"
    /\ tCfg = TRUE
    /\ clock = 0
    /\ cache = EmptyCache
    /\ grant = NoGrant
    /\ tLast = NoCall
    /\ rPc = [i \in Threads |-> "idle"]
    /\ rNow = [i \in Threads |-> 0]
    /\ rGot = [i \in Threads |-> [token |-> NoToken, ttl |-> [has |-> FALSE, v |-> 0]]]
    /\ rServed = NothingServed
    /\ issued = <<>>
    /\ wSecret = WebSecret
    /\ readings = EmptyReadings
    /\ mapping = [present |-> FALSE, enabled |-> FALSE, plug |-> 0]
    /\ wEvent = NoEvent
    /\ wResp = Response(0, "none")
    /\ wEffects = <<>>
    /\ wCount = 0
    /\ wInputs = NoInputs
    /\ qQuery = [none |-> TRUE, items |-> <<>>]
    /\ qOut = NoOut
    /\ pMode = "none"
    /\ pPlan = NoPlan
    /\ pItems = <<>>
    /\ pCursor = 0
    /\ pSent = <<>>
    /\ pGot = <<>>
    /\ pPc = "start"
    /\ pResp = NoListResp
    /\ sRegistry = [k \in DeviceKeys |-> NoEntry]
    /\ sRemote = {}
    /\ sOut = NoSync
    /\ sQuery = NoQuery
    /\ sSyncs = 0
    /\ mStore = NoMapping
    /\ mClock = 0
    /\ mFirst = 0
    /\ mLast = NoMappingCall
    /\ uPc = [i \in Instances |-> "idle"]
    /\ uNow = [i \in Instances |-> 0]
    /\ uSeen = [i \in Instances |-> NoMapping]
    /\ hReq = NoRequest
    /\ kWebhook = NoKey
    /\ kBind = NoKey
    /\ kCsv = NoKey
    /\ lMode = "none"
    /\ lPc = "idle"
    /\ lCursor = 0
    /\ lSent = {}
    /\ lRepeated = FALSE

VerifyNext == VerifySignatureCall \/ ReceiveData

SpecVerify == VerifyInit /\ [][VerifyNext]_vars

-----------------------------------------------------------------------------
(* Claims on signature verification (SpecVerify) *)

BlockIsValid ==
    /\ vBlock.kind = "dict"
    /\ vSecret # <<>>
    /\ vBlock.timestamp.t \in {"str", "int"} /\ vBlock.timestamp.v # <<>>
    /\ vBlock.token.t = "str" /\ vBlock.token.v # <<>>

SignatureMatches ==
    /\ vBlock.signature.t = "str"
    /\ vBlock.signature.v
         = HmacSha256Hex(vSecret, vBlock.timestamp.v \o vBlock.token.v)

\* C3: with a non-empty secret, timestamp and token, verification answers
\* true exactly when the provided signature is the lowercase hex HMAC of
\* timestamp followed by token; a signature differing anywhere is refused
\* (by _verify_signature and by receive_data alike).
C3_VerifyIffDigest ==
    BlockIsValid =>
        /\ (vResult # "pending" => (vResult = "true" <=> SignatureMatches))
        /\ (vServer # "pending" => (vServer = "200" <=> SignatureMatches))

C3_Witness ==
    BlockIsValid /\ SignatureMatches /\ vResult = "true" /\ vServer = "200"

BlockIsMalformed ==
    \/ vSecret = <<>>
    \/ vBlock.kind # "dict"
    \/ vBlock.timestamp.t \notin {"str", "int"} \/ vBlock.timestamp.v = <<>>
    \/ vBlock.token.t # "str" \/ vBlock.token.v = <<>>
    \/ vBlock.signature.t # "str" \/ vBlock.signature.v = <<>>

\* C4: _verify_signature answers false (it never raises: it has no other
\* outcome than true and false) whenever the secret is empty or the
\* timestamp, token or signature is missing, empty or of an unexpected type.
C4_FalseOnMalformed ==
    (vResult # "pending" /\ BlockIsMalformed) => vResult = "false"

-----------------------------------------------------------------------------
(* Claims on the token caches (SpecToken) *)

\* C5: a token is returned without an exchange only at a time strictly
\* before the stored expires_at, and the expires_at stored with a token is
\* never later than (the time it was requested + its declared ttl - 60).
C5_CacheMargin ==
    /\ (tLast.kind = "cached" => tLast.at < tLast.before.expires_at)
    /\ ((cache.token >= 1 /\ cache.token = grant.token /\ grant.ttl.has)
          => cache.expires_at <= grant.t0 + grant.ttl.v - 60)

C5_Witness ==
    /\ tLast.kind = "cached"
    /\ cache.token >= 1 /\ cache.token = grant.token /\ grant.ttl.has
    /\ tLast.at > grant.t0

\* the call began with the cache holding the token of the latest grant, whose
\* lifetime the vendor declared
HeldInCache ==
    /\ tLast.kind # "none"
    /\ tLast.held.token >= 1
    /\ tLast.before.token = tLast.held.token
    /\ tLast.held.ttl.has

HeldDeadline == tLast.held.t0 + tLast.held.ttl.v - 60

WellFormedGrant(resp) ==
    resp.net = "ok" /\ resp.success = "true" /\ resp.token >= 1
        /\ resp.ttl.has /\ resp.ttl.v > 0

\* C6: after a get_token that obtained a token with lifetime ttl at t0, a
\* call before t0 + ttl - 60 sends no request and returns that same token; a
\* call at or after it sends exactly one exchange and returns the token the
\* vendor then issues.
C6_ReuseThenRefresh ==
    HeldInCache =>
        /\ (tLast.at < HeldDeadline =>
                /\ tLast.kind = "cached"
                /\ tLast.requests = 0
                /\ tLast.token = tLast.held.token)
        /\ (tLast.at >= HeldDeadline =>
                /\ tLast.requests = 1
                /\ (WellFormedGrant(tLast.resp) =>
                        /\ tLast.kind = "fresh"
                        /\ tLast.token = tLast.resp.token
                        /\ tLast.token # tLast.held.token))

C6_Witness ==
    /\ HeldInCache
    /\ tLast.at >= HeldDeadline
    /\ tLast.at > tLast.held.t0
    /\ tLast.kind = "fresh"
    /\ tLast.token = grant.token

\* C7: a token response whose lifetime is missing, zero or negative is
\* rejected with an error and leaves the cache as it was.
C7_RejectsBadTtl ==
    (/\ tLast.requests = 1
     /\ tLast.resp.net = "ok" /\ tLast.resp.success = "true"
     /\ tLast.resp.token >= 1
     /\ (~tLast.resp.ttl.has \/ tLast.resp.ttl.v <= 0))
        => (tLast.kind = "error" /\ cache = tLast.before)

\* C8: when the vendor rejects the exchange (transport error, HTTP error
\* status, success=false) or its response carries no token, get_token
\* fails with an error and the cache is what it was before the call.
C8_FailsOnRejection ==
    (/\ tLast.requests = 1
     /\ \/ tLast.resp.net # "ok"
        \/ tLast.resp.success = "false"
        \/ tLast.resp.token < 1)
        => (tLast.kind = "error" /\ cache = tLast.before)

-----------------------------------------------------------------------------
(* Claim on concurrent callers (SpecRace) *)

\* C9: under any interleaving of get_token callers on one unlocked cache,
\* every returned token is one the vendor issued, and no token is served
\* from the cache at or after its own (request time + ttl - 60).
C9_RaceIsNoOp ==
    rServed.how # "none" =>
        /\ rServed.token \in 1..Len(issued)
        /\ (rServed.how = "cache" =>
               rServed.at < issued[rServed.token].t0
                              + issued[rServed.token].ttl.v - 60)

-----------------------------------------------------------------------------
(* Claims on the webhook entry point (SpecWebhook) *)

Unverified(ev) == ev.body = "webhook" /\ VerifySignature(wSecret, ev.block) # "true"

\* C1: an invocation whose signature block does not verify answers 401 and
\* has no effect: no store or vendor call is made, and the readings, the
\* token cache and the vendor's grants are what they were.
C1_UnverifiedNoEffect ==
    [][(wCount' # wCount /\ Unverified(wEvent'))
         => /\ wResp' = Response(401, "unauthorized")
            /\ wEffects' = <<>>
            /\ readings' = readings
            /\ cache' = cache
            /\ grant' = grant]_vars

C1_Witness ==
    /\ Unverified(wEvent) /\ wEvent.payload = "dict" /\ Len(wEvent.data) = 2
    /\ mapping.present /\ mapping.enabled /\ mapping.plug # 0
    /\ wCount = 2 /\ readings[1].present /\ cache.token >= 1
    /\ wResp.status = 401

\* C2: lambda_handler answers 400 to a body that is not valid JSON, 401 to a
\* well-formed body whose signature fails, and 200 "ok" when the signature
\* verifies and the readings are processed.
C2_StatusByCase ==
    wCount > 0 =>
        /\ (wEvent.body = "notjson" => wResp.status = 400)
        /\ (Unverified(wEvent) => wResp.status = 401)
        /\ ((wEvent.body = "webhook" /\ ~Unverified(wEvent) /\ wEvent.payload = "dict"
                /\ \A i \in 1..Len(wEvent.data) : wEvent.data[i].kind = "ok")
              => wResp.status = 200 /\ wResp.tag \in {"ok", "no data"})

-----------------------------------------------------------------------------
(* Claim on the query canonicalisation (SpecQuery) *)

\* the pairs of the query whose value is neither null nor the empty string
Surviving(query) ==
    IF query.none THEN {}
    ELSE {query.items[i] : i \in {j \in 1..Len(query.items) :
              query.items[j].v.t # "null" /\ query.items[j].v.v # <<>>}}

\* k=v&k=v over a set of pairs, least key first
RECURSIVE JoinByKey(_)
JoinByKey(pairs) ==
    IF pairs = {} THEN <<>>
    ELSE LET least == CHOOSE x \in pairs : \A y \in pairs : y = x \/ StrLess(x.k, y.k)
             rest  == pairs \ {least}
         IN  QuotePlus(least.k) \o <<"=">> \o QuotePlus(least.v.v)
             \o (IF rest = {} THEN <<>> ELSE <<"&">> \o JoinByKey(rest))

ExpectedPath ==
    IF Surviving(qQuery) = {} THEN QueryPath
    ELSE QueryPath \o <<"?">> \o JoinByKey(Surviving(qQuery))

\* C10: the path signed and requested is the path, then '?' and the
\* parameters whose value is neither null nor empty, sorted by key and
\* joined as k=v&k=v (URL-encoded); the bare path when none survives.
C10_CanonicalPath ==
    qOut.done => (qOut.signed = ExpectedPath /\ qOut.url = BaseUrl \o ExpectedPath)

C10_Witness ==
    /\ qOut.done
    /\ Len(qQuery.items) = 2
    /\ Cardinality(Surviving(qQuery)) = 2
    /\ StrLess(qQuery.items[2].k, qQuery.items[1].k)
    /\ qQuery.items[1].v = JInt(<<"0">>)

-----------------------------------------------------------------------------
(* Claim on the configuration check of the Tuya call paths (SpecToken) *)

\* C11: with the client id or the client secret empty, every Tuya call path
\* fails with a configuration error before any request is sent.
C11_ConfigErrorFirst ==
    (tLast.kind # "none" /\ ~tCfg /\ tImpl \in {"webhook", "csv", "plugs"})
        => (tLast.kind = "config_error" /\ tLast.requests = 0)

-----------------------------------------------------------------------------
(* Claims on the paginated listings (SpecPages) *)

\* the request after which draining by page size ends: the first page
\* shorter than PageSize, or the empty page that follows the vendor's last
FirstShort(sizes) ==
    CHOOSE k \in 1..(Len(sizes) + 1) :
        /\ k > Len(sizes) \/ sizes[k] < PageSize
        /\ \A j \in 1..(k - 1) : sizes[j] = PageSize

ListCompleted == pMode = "list" /\ (pPc = "returned" \/ (pPc = "answered" /\ pResp.status = 200))

\* C12: list_all_devices_in_space requests pages while the last one was
\* full and stops after the first shorter or empty one; it returns all the
\* pages' items in order, none dropped or duplicated.
C12_DrainsByPageSize ==
    ListCompleted =>
        LET k == FirstShort(pPlan.sizes)
            n == SumSeq(SubSeq(pPlan.sizes, 1, IF k > Len(pPlan.sizes) THEN Len(pPlan.sizes) ELSE k))
        IN  /\ Len(pSent) = k
            /\ pItems = [i \in 1..n |-> SpaceDevices(pPlan)[i]]
            /\ (pPc = "answered" => pResp.count = n)

C12_Witness ==
    /\ pMode = "list" /\ pPlan.sizes = <<20, 20, 20, 5>>
    /\ pPc = "answered" /\ pResp.status = 200 /\ pResp.count = 65
    /\ Len(pItems) = 65 /\ Len(pSent) = 4

RECURSIVE AllItems(_)
AllItems(got) == IF got = <<>> THEN <<>> ELSE Head(got).items \o AllItems(Tail(got))

\* C13: tuya_fetch_switch_logs asks for a further page only after a page
\* that reported has_more with a non-empty key, and sends exactly that key;
\* a page with has_more but no key ends the loop, its entries included.
C13_FollowsCursor ==
    pMode = "logs" =>
        /\ (pSent # <<>> => pSent[1] = 0)
        /\ \A j \in 2..Len(pSent) :
              pGot[j - 1].has_more /\ pGot[j - 1].key # 0 /\ pSent[j] = pGot[j - 1].key
        /\ (pPc = "loop" /\ pGot # <<>>
              => pGot[Len(pGot)].has_more /\ pGot[Len(pGot)].key # 0)
        /\ (pPc \in {"returned", "answered"} /\ pGot # <<>> /\ Len(pGot) = Len(pSent)
              => /\ ~(pGot[Len(pGot)].has_more /\ pGot[Len(pGot)].key # 0)
                 /\ pItems = AllItems(pGot))

C13_Witness ==
    /\ pMode = "logs" /\ pPc = "answered" /\ Len(pSent) = 2 /\ Len(pGot) = 2
    /\ pSent[2] = RowKey(1)
    /\ pGot[2].has_more /\ pGot[2].key = 0 /\ Len(pGot[2].items) = 2
    /\ Len(pItems) = 4 /\ pResp.count = 4

PageRequestFailed == pPlan.failAt # 0 /\ Len(pSent) >= pPlan.failAt

\* C14: a failed page request ends the fetch at once and no partial result
\* is used: the plug list handler answers an error with no device list, the
\* CSV export has no plug row.
C14_FailurePropagates ==
    /\ (pPlan.failAt # 0 => Len(pSent) <= pPlan.failAt)
    /\ (PageRequestFailed => pPc \in {"raised", "answered"})
    /\ (PageRequestFailed /\ pPc = "answered"
          => /\ pResp.ids = {} /\ pResp.count = 0
             /\ (pMode = "list" => pResp.status = 500 /\ ~pResp.has))

C14_Witness ==
    /\ pMode = "logs" /\ PageRequestFailed /\ pPc = "answered"
    /\ Len(pSent) = 2 /\ Len(pItems) = 2 /\ pResp.count = 0

-----------------------------------------------------------------------------
(* Claim on the store queries (SpecStoreQuery) *)

\* C15: every store query follows the continuation token to the end, so
\* its result holds every matching item however the store pages them.
C15_QueriesComplete ==
    sQuery.who # "none" => sQuery.got = sQuery.matching

-----------------------------------------------------------------------------
(* Claims on the device registry sync (SpecRegistry) *)

LocalKeys(registry) == {k \in DeviceKeys : registry[k].present}

\* C16: a successful sync inserts exactly the keys remote - local and
\* deletes exactly the keys local - remote, and afterwards the registry's
\* keys are the vendor's devices.
C16_FullReconciliation ==
    [][(sSyncs' # sSyncs /\ sOut'.status = 200)
         => /\ sOut'.puts = sRemote \ LocalKeys(sRegistry)
            /\ sOut'.deletes = LocalKeys(sRegistry) \ sRemote
            /\ LocalKeys(sRegistry') = sRemote]_vars

\* C17: a key that is both in the vendor's list and in the registry before a
\* sync gets no put and no delete, and its entry is unchanged afterwards.
C17_CommonKeysUntouched ==
    [][sSyncs' # sSyncs
         => \A k \in sRemote \cap LocalKeys(sRegistry) :
               /\ k \notin sOut'.puts \cup sOut'.deletes
               /\ sRegistry'[k] = sRegistry[k]]_vars

-----------------------------------------------------------------------------
(* Claims on the mapping store (SpecMapping, SpecMappingRace) *)

\* C18: with no delete in between, every upsert keeps the created_at of the
\* first one and sets updated_at to its own time, also when the lookup
\* fails; an upsert on a key with no record sets both to now.
C18_UpsertKeepsCreatedAt ==
    mLast.op = "upsert" =>
        /\ mStore.present
        /\ mStore.created_at = mFirst
        /\ mStore.updated_at = mLast.at
        /\ (mLast.fresh => mStore.created_at = mLast.at)

\* C19: under any interleaving of upserts and deletes by concurrent
\* instances, the stored record has created_at <= updated_at.
C19_CreatedBeforeUpdated ==
    mStore.present => mStore.created_at <= mStore.updated_at

-----------------------------------------------------------------------------
(* Claim on the readings store (SpecWebhook) *)

\* C20: a stored reading is never changed or deleted by a later webhook
\* delivery: every field of it, received_at included, stays what it was.
C20_ReadingsAppendOnly ==
    [][\A k \in ReadingKeys : readings[k].present => readings'[k] = readings[k]]_vars


-----------------------------------------------------------------------------
(* Failures inside the webhook invocation *)

\* a put_item of the last invocation raised
PutFailed ==
    \E i \in 1..Len(wEffects) :
        /\ wEffects[i].op = "put"
        /\ i <= Len(wInputs.oks)
        /\ ~wInputs.oks[i]

\* C21: when persisting a reading of a verified batch fails, the handler
\* answers with an error (not 200) and sends no plug control call.
C21_PersistFailureSurfaces ==
    PutFailed => wResp.status # 200 /\ ~Made(wEffects, {"control"})

\* control_plug of the last webhook invocation raised: its token exchange
\* failed, or its command request failed
ControlFailed ==
    /\ wEvent.body = "webhook"
    /\ Made(wEffects, {"get_mapping"})
    /\ \/ Made(wEffects, {"token_exchange"}) /\ ~Made(wEffects, {"control"})
       \/ Made(wEffects, {"control"}) /\ ~wInputs.ctlOk

\* the readings the last invocation handed to the store successfully
StoredOfBatch ==
    {i \in 1..Len(wEvent.data) :
        /\ i <= Len(wEffects) /\ wEffects[i].op = "put"
        /\ i <= Len(wInputs.oks) /\ wInputs.oks[i]}

C23_AlwaysResponds == wCount > 0 => wResp.status # 0


\* the positions of the calls of one kind among the calls of an invocation
CallsOf(effects, op) == {i \in 1..Len(effects) : effects[i].op = op}

\* C27: a webhook invocation sends a plug control call only if the mapping
\* lookup succeeded and found a mapping that is enabled and names a plug; it
\* sends at most one, after every reading of the batch was handed to the
\* store, and to the mapped plug.  The mapping is the one in the table at
\* the time of the invocation, so a deleted or disabled mapping actuates
\* nothing.
C27_ControlOnlyWhenMapped ==
    [][wCount' # wCount /\ wEvent'.body = "webhook" =>
          LET ctl  == CallsOf(wEffects', "control")
              puts == CallsOf(wEffects', "put")
          IN  /\ Cardinality(ctl) <= 1
              /\ \A i \in ctl :
                    /\ mapping.present /\ mapping.enabled /\ mapping.plug # 0
                    /\ wInputs'.lookupOk
                    /\ wEffects'[i].dev = mapping.plug
                    /\ Cardinality(puts) = Len(wEvent'.data)
                    /\ \A j \in puts : j < i]_vars

C27_Witness ==
    /\ wCount = 2
    /\ wEvent.body = "webhook"
    /\ Len(wEvent.data) = 2
    /\ mapping.plug = 7
    /\ \E i \in CallsOf(wEffects, "control") : wEffects[i].dev = 7
    /\ Cardinality(CallsOf(wEffects, "put")) = 2

-----------------------------------------------------------------------------
(* Specification of the request signing *)

SignInit ==
    /\ hReq = NoRequest
    /\ vSecret = <<>>
    /\ vBlock = IdleBlock
    /\ vResult = "pending"
    /\ vServer = "pending"
    /\ tImpl = "webhook"
    /\ tCfg = TRUE
    /\ clock = 0
    /\ cache = EmptyCache
    /\ grant = NoGrant
    /\ tLast = NoCall
    /\ rPc = [i \in Threads |-> "idle"]
    /\ rNow = [i \in Threads |-> 0]
    /\ rGot = [i \in Threads |-> [token |-> NoToken, ttl |-> [has |-> FALSE, v |-> 0]]]
    /\ rServed = NothingServed
    /\ issued = <<>>
    /\ wSecret = WebSecret
    /\ readings = EmptyReadings
    /\ mapping = [present |-> FALSE, enabled |-> FALSE, plug |-> 0]
    /\ wEvent = NoEvent
    /\ wResp = Response(0, "none")
    /\ wEffects = <<>>
    /\ wCount = 0
    /\ wInputs = NoInputs
    /\ qQuery = [none |-> TRUE, items |-> <<>>]
    /\ qOut = NoOut
    /\ pMode = "none"
    /\ pPlan = NoPlan
    /\ pItems = <<>>
    /\ pCursor = 0
    /\ pSent = <<>>
    /\ pGot = <<>>
    /\ pPc = "start"
    /\ pResp = NoListResp
    /\ sRegistry = [k \in DeviceKeys |-> NoEntry]
    /\ sRemote = {}
    /\ sOut = NoSync
    /\ sQuery = NoQuery
    /\ sSyncs = 0
    /\ mStore = NoMapping
    /\ mClock = 0
    /\ mFirst = 0
    /\ mLast = NoMappingCall
    /\ uPc = [i \in Instances |-> "idle"]
    /\ uNow = [i \in Instances |-> 0]
    /\ uSeen = [i \in Instances |-> NoMapping]
    /\ kWebhook = NoKey
    /\ kBind = NoKey
    /\ kCsv = NoKey
    /\ lMode = "none"
    /\ lPc = "idle"
    /\ lCursor = 0
    /\ lSent = {}
    /\ lRepeated = FALSE

SpecSign == SignInit /\ [][SignNext]_vars

\* C24: every signing site produces the signature _tuya_sign gives for the
\* method, path with query, body, token, t and nonce of the request, and the
\* signed path and body are the ones sent.
C24_SigningSitesAgree ==
    hReq.site # "none" =>
        /\ hReq.sign = TuyaSign(hReq.method, hReq.path, hReq.body, hReq.token,
                                hReq.t, hReq.nonce)
        /\ hReq.header_token = hReq.token

C24_Witness ==
    /\ hReq.site = "control_plug"
    /\ hReq.token = <<"t", "0">>
    /\ hReq.body = CommandBody(TRUE)
    /\ hReq.sign = TuyaSign(<<"POST">>, <<"/v1.0/devices/", "a", "7", "/commands">>,
                            CommandBody(TRUE), <<"t", "0">>, <<"2">>, <<"n">>)


-----------------------------------------------------------------------------
(* Specification of the sensor id as key *)

KeyInit ==
    /\ kWebhook = NoKey
    /\ kBind = NoKey
    /\ kCsv = NoKey
    /\ hReq = NoRequest
    /\ vSecret = <<>>
    /\ vBlock = IdleBlock
    /\ vResult = "pending"
    /\ vServer = "pending"
    /\ tImpl = "webhook"
    /\ tCfg = TRUE
    /\ clock = 0
    /\ cache = EmptyCache
    /\ grant = NoGrant
    /\ tLast = NoCall
    /\ rPc = [i \in Threads |-> "idle"]
    /\ rNow = [i \in Threads |-> 0]
    /\ rGot = [i \in Threads |-> [token |-> NoToken, ttl |-> [has |-> FALSE, v |-> 0]]]
    /\ rServed = NothingServed
    /\ issued = <<>>
    /\ wSecret = WebSecret
    /\ readings = EmptyReadings
    /\ mapping = [present |-> FALSE, enabled |-> FALSE, plug |-> 0]
    /\ wEvent = NoEvent
    /\ wResp = Response(0, "none")
    /\ wEffects = <<>>
    /\ wCount = 0
    /\ wInputs = NoInputs
    /\ qQuery = [none |-> TRUE, items |-> <<>>]
    /\ qOut = NoOut
    /\ pMode = "none"
    /\ pPlan = NoPlan
    /\ pItems = <<>>
    /\ pCursor = 0
    /\ pSent = <<>>
    /\ pGot = <<>>
    /\ pPc = "start"
    /\ pResp = NoListResp
    /\ sRegistry = [k \in DeviceKeys |-> NoEntry]
    /\ sRemote = {}
    /\ sOut = NoSync
    /\ sQuery = NoQuery
    /\ sSyncs = 0
    /\ mStore = NoMapping
    /\ mClock = 0
    /\ mFirst = 0
    /\ mLast = NoMappingCall
    /\ uPc = [i \in Instances |-> "idle"]
    /\ uNow = [i \in Instances |-> 0]
    /\ uSeen = [i \in Instances |-> NoMapping]
    /\ lMode = "none"
    /\ lPc = "idle"
    /\ lCursor = 0
    /\ lSent = {}
    /\ lRepeated = FALSE

SpecKey == KeyInit /\ [][KeyNext]_vars

\* C25: the key under which the webhook stores readings and looks up the
\* mapping is the normalized form of the payload MAC (upper case, ":" and
\* "-" removed), the key the bind handler writes and the CSV export queries
\* for the same sensor.
C25_WebhookKeyNormalized ==
    /\ (kWebhook.used => kWebhook.key = CleanSensorMac(kWebhook.given))
    /\ (kWebhook.used /\ kBind.used
          /\ CleanSensorMac(kWebhook.given) = CleanSensorMac(kBind.given)
          => kWebhook.key = kBind.key)
    /\ (kWebhook.used /\ kCsv.used
          /\ CleanSensorMac(kWebhook.given) = CleanSensorMac(kCsv.given)
          => kWebhook.key = kCsv.key)


-----------------------------------------------------------------------------
(* Specification of the pagination loops against an arbitrary vendor: a    *)
(* running loop keeps taking iterations.                                   *)

LoopInit ==
    /\ lMode = "none"
    /\ lPc = "idle"
    /\ lCursor = 0
    /\ lSent = {}
    /\ lRepeated = FALSE
    /\ kWebhook = NoKey
    /\ kBind = NoKey
    /\ kCsv = NoKey
    /\ hReq = NoRequest
    /\ vSecret = <<>>
    /\ vBlock = IdleBlock
    /\ vResult = "pending"
    /\ vServer = "pending"
    /\ tImpl = "webhook"
    /\ tCfg = TRUE
    /\ clock = 0
    /\ cache = EmptyCache
    /\ grant = NoGrant
    /\ tLast = NoCall
    /\ rPc = [i \in Threads |-> "idle"]
    /\ rNow = [i \in Threads |-> 0]
    /\ rGot = [i \in Threads |-> [token |-> NoToken, ttl |-> [has |-> FALSE, v |-> 0]]]
    /\ rServed = NothingServed
    /\ issued = <<>>
    /\ wSecret = WebSecret
    /\ readings = EmptyReadings
    /\ mapping = [present |-> FALSE, enabled |-> FALSE, plug |-> 0]
    /\ wEvent = NoEvent
    /\ wResp = Response(0, "none")
    /\ wEffects = <<>>
    /\ wCount = 0
    /\ wInputs = NoInputs
    /\ qQuery = [none |-> TRUE, items |-> <<>>]
    /\ qOut = NoOut
    /\ pMode = "none"
    /\ pPlan = NoPlan
    /\ pItems = <<>>
    /\ pCursor = 0
    /\ pSent = <<>>
    /\ pGot = <<>>
    /\ pPc = "start"
    /\ pResp = NoListResp
    /\ sRegistry = [k \in DeviceKeys |-> NoEntry]
    /\ sRemote = {}
    /\ sOut = NoSync
    /\ sQuery = NoQuery
    /\ sSyncs = 0
    /\ mStore = NoMapping
    /\ mClock = 0
    /\ mFirst = 0
    /\ mLast = NoMappingCall
    /\ uPc = [i \in Instances |-> "idle"]
    /\ uNow = [i \in Instances |-> 0]
    /\ uSeen = [i \in Instances |-> NoMapping]

SpecLoops ==
    LoopInit /\ [][LoopNext]_vars /\ WF_vars(ListLoopStep) /\ WF_vars(LogsLoopStep)

\* C26: whatever the vendor answers, a running pagination loop comes to an
\* end, and no run sends a request with a cursor it has already sent.
C26_LoopsTerminate ==
    /\ (lPc = "loop") ~> (lPc # "loop")
    /\ [](~lRepeated)

====
